---- MODULE Spec2Model ----
(***************************************************************************)
(* A model of the managed matmul core template of the graph compiler       *)
(* (src/backend/graph_compiler/core/src/ops/templates/                     *)
(* managed_matmul_core.cpp): the balance211 work partitioner, the default  *)
(* configuration search (cost model, overrides, tile sizing) and the plan  *)
(* generate builds for a Config (validation, thread regions, GEMM calls    *)
(* and fusion anchors, with or without a split on K), and of the           *)
(* thread-local max_concurrency of src/common/dnnl_threadpool.cpp.         *)
(*                                                                         *)
(* Five specifications share the module:                                   *)
(*   SpecBalance  runs get_balance211_length for idx = 0 .. team-1         *)
(*   SpecConfig   constructs a gen_managed_matmul_core_t and runs          *)
(*                get_default_config on it, one loop iteration or branch   *)
(*                block per step                                           *)
(*   SpecGenerate runs generate on a supplied Config: the COMPILE_ASSERTs, *)
(*                then with K_split_num == 1 the threads (m_s, n_s) one    *)
(*                after the other, one innermost loop iteration per step   *)
(*   SpecKSplit   runs generate on Configs that leave threads for K: per   *)
(*                tile the interleaved K-split workers, one GEMM call per  *)
(*                step, then the reduction of out_tmp_buf into C           *)
(*   SpecThreadpool lets two threads call the set / get max_concurrency    *)
(*                interop functions in any order                           *)
(* All C++ values modelled are non-negative ints, so C++ '/' is \div.      *)
(***************************************************************************)
EXTENDS Integers, Sequences, FiniteSets, TLC

VARIABLES
    \* ---- get_balance211_length driver
    b_n,            \* n: number of granules
    b_team,         \* team: number of workers
    b_idx,          \* next worker index to be computed
    b_starts,       \* n_start returned for idx = 0 .. b_idx-1
    b_lens,         \* length returned for idx = 0 .. b_idx-1
    b_T1,           \* T1 returned by the calls so far
    \* ---- gen_managed_matmul_core_t and get_default_config
    dtype,          \* get_A_dtype(): "f32", "bf16", "u8", "s8"
    plain_M, plain_N, plain_K,
    num_threads,    \* runtime_config_t::get().get_num_threads()
    L2_size,        \* ctx->machine_.cpu_flags_.getDCacheSize(2)
    iim_block, iin_block, iik_block,
    pc,             \* position inside get_default_config
    i,              \* loop variable of the cost search
    cost, split_n,  \* locals of the cost search
    cfg,            \* the managed_matmul_core_config_t being filled
    \* ---- generate and single_thread_matmul_call
    B_dtype,        \* get_B_dtype()
    B_blocks2,      \* in_tensors_[1].get_format().blocks_[2]
    is_blocking,    \* out_tensors_[0].get_format().is_blocking()
    fusion,         \* TRUE when a fusion manager is passed
    g_pc,           \* position inside generate
    err,            \* message of the failed COMPILE_ASSERT, "" if none
    m_s, n_s,       \* iterators of the parallel loops
    tid,            \* get_thread_id_func()() of the running thread
    m_b, n_b, k_b,  \* sub-block iterators
    m_o, n_o,       \* block iterators inside a sub-block
    log,            \* GEMM calls and anchors of the running thread, in order
    regions,        \* output regions of the threads run so far
    outer,          \* anchors created after the n_s loop
    \* ---- generate with K_split_num > 1: partial compute and reduction
    w_tid,          \* thread id of each K-split worker of the tile, -1 before
                    \* the worker starts
    w_pos,          \* GEMM calls each K-split worker of the tile has issued
    tmp,            \* out_tmp_buf, by <<slot, block row, block column>>
    out,            \* C, by <<block row, block column>>
    r_lm_ln, r_lks, \* iterators of the reduction loops
    reads,          \* out_tmp_buf reads of the reduction so far
    anchors,        \* anchors created so far, in order
    \* ---- dnnl_threadpool_interop_{set,get}_max_concurrency
    tp_tls,         \* the thread_local max_concurrency of each thread
    tp_ret,         \* status returned by each thread's last call
    tp_out,         \* what each thread's last get wrote through its pointer
    tp_last,        \* the value of each thread's last successful set
    tp_ndebug       \* whether the library was built with NDEBUG

balVars == <<b_n, b_team, b_idx, b_starts, b_lens, b_T1>>
cfgVars == <<dtype, plain_M, plain_N, plain_K, num_threads, L2_size,
             iim_block, iin_block, iik_block, pc, i, cost, split_n,
             cfg>>
genVars == <<B_dtype, B_blocks2, is_blocking, fusion, g_pc, err, m_s, n_s,
             tid, m_b, n_b, k_b, m_o, n_o, log, regions, outer>>
ksVars == <<w_tid, w_pos, tmp, out, r_lm_ln, r_lks, reads, anchors>>
tpVars == <<tp_tls, tp_ret, tp_out, tp_last, tp_ndebug>>
vars == <<balVars, cfgVars, genVars, ksVars, tpVars>>

----------------------------------------------------------------------------
(* Bounds of the model *)

MaxN == 9           \* granules handed to balance211
MaxTeam == 5        \* workers handed to balance211
MaxThreads == 6     \* thread-pool sizes 1 .. MaxThreads

----------------------------------------------------------------------------
(* Helpers *)

Min(a, b) == IF a < b THEN a ELSE b
Max(a, b) == IF a > b THEN a ELSE b

\* utils::divide_and_ceil and the expr version of it
divide_and_ceil(v, d) == (v + d - 1) \div d

\* utils::rnd_up
rnd_up(a, b) == divide_and_ceil(a, b) * b

RECURSIVE SeqSum(_)
SeqSum(s) == IF s = <<>> THEN 0 ELSE Head(s) + SeqSum(Tail(s))

SeqRange(s) == {s[k] : k \in 1..Len(s)}

----------------------------------------------------------------------------
(* get_balance211_length *)

\* bug variant: the length select uses the start's comparison (idx <= T1)
get_balance211_length_le(n, team, idx) ==
    LET n1 == divide_and_ceil(n, team)
        n2 == n1 - 1
        T1 == n - n2 * team
    IN  [length  |-> IF idx <= T1 THEN n1 ELSE n2,
         n_start |-> IF idx <= T1 THEN idx * n1
                                  ELSE T1 * n1 + (idx - T1) * n2,
         T1      |-> T1]

\* bug variant: the start of the small workers forgets the big workers' share
get_balance211_length_start(n, team, idx) ==
    LET n1 == divide_and_ceil(n, team)
        n2 == n1 - 1
        T1 == n - n2 * team
    IN  [length  |-> IF idx < T1 THEN n1 ELSE n2,
         n_start |-> IF idx <= T1 THEN idx * n1
                                  ELSE T1 * n2 + (idx - T1) * n2,
         T1      |-> T1]

\* bug variant: T1 computed from n1 instead of n2
get_balance211_length_T1(n, team, idx) ==
    LET n1 == divide_and_ceil(n, team)
        n2 == n1 - 1
        T1 == Max(0, n - n2 * (team - 1))
    IN  [length  |-> IF idx < T1 THEN n1 ELSE n2,
         n_start |-> IF idx <= T1 THEN idx * n1
                                  ELSE T1 * n1 + (idx - T1) * n2,
         T1      |-> T1]

get_balance211_length(n, team, idx) ==
    LET n1 == divide_and_ceil(n, team)
        n2 == n1 - 1
        T1 == n - n2 * team
    IN  [length  |-> IF idx < T1 THEN n1 ELSE n2,
         n_start |-> IF idx <= T1 THEN idx * n1
                                  ELSE T1 * n1 + (idx - T1) * n2,
         T1      |-> T1]

BalanceInit ==
    /\ b_n \in 1..MaxN
    /\ b_team \in 1..MaxTeam
    /\ b_idx = 0
    /\ b_starts = <<>>
    /\ b_lens = <<>>
    /\ b_T1 = 0
       \* no op is constructed
    /\ dtype = "f32" /\ plain_M = 0 /\ plain_N = 0 /\ plain_K = 0
    /\ num_threads = 0 /\ L2_size = 0
    /\ iim_block = 0 /\ iin_block = 0 /\ iik_block = 0
    /\ pc = "idle" /\ i = 0 /\ cost = 0 /\ split_n = 0
    /\ cfg = [M_split_num |-> 0, N_split_num |-> 0, M_sub_block |-> 0,
              N_sub_block |-> 0, K_sub_block |-> 0, im_loop_order |-> 0]
       \* generate is not running
    /\ B_dtype = "f32" /\ B_blocks2 = -1
    /\ is_blocking = FALSE /\ fusion = FALSE
    /\ g_pc = "idle" /\ err = ""
    /\ m_s = 0 /\ n_s = 0 /\ tid = 0
    /\ m_b = 0 /\ n_b = 0 /\ k_b = 0 /\ m_o = 0 /\ n_o = 0
    /\ log = <<>> /\ regions = <<>> /\ outer = <<>>
       \* no K-split plan is running
    /\ w_tid = <<>> /\ w_pos = <<>> /\ tmp = <<>> /\ out = <<>>
    /\ r_lm_ln = 0 /\ r_lks = 0 /\ reads = {} /\ anchors = <<>>
       \* no thread uses the threadpool interop calls
    /\ tp_tls = <<>> /\ tp_ret = <<>> /\ tp_out = <<>> /\ tp_last = <<>>
    /\ tp_ndebug = FALSE

\* one call get_balance211_length(n, team, idx, n_start, T1)
BalanceCall ==
    /\ b_idx < b_team
    /\ LET r == get_balance211_length(b_n, b_team, b_idx)
       IN  /\ b_starts' = Append(b_starts, r.n_start)
           /\ b_lens' = Append(b_lens, r.length)
           /\ b_T1' = r.T1
    /\ b_idx' = b_idx + 1
    /\ UNCHANGED <<b_n, b_team>>

BalanceDone == b_idx = b_team

----------------------------------------------------------------------------
(* gen_managed_matmul_core_t: the constructor's choice of block sizes *)

DTypes == {"f32", "bf16", "u8", "s8"}

\* utils::get_sizeof_etype of the A operand
sizeofdtypeA(dt) == IF dt = "f32" THEN 4 ELSE IF dt = "bf16" THEN 2 ELSE 1

\* utils::get_sizeof_etype of the output: f32 for f32/bf16 inputs, s32 for
\* u8/s8 inputs
sizeofdtypeC == 4

M_block_default(dt) == IF dt = "f32" THEN 16 ELSE 32
N_block_default(dt) == IF dt = "f32" THEN 16 ELSE IF dt = "bf16" THEN 32 ELSE 64
K_block_default(dt) == IF dt = "f32" THEN 16 ELSE IF dt = "bf16" THEN 32 ELSE 64

suggest_aligned_block(plain_X, default_block, min, align) ==
    IF plain_X < default_block
    THEN IF plain_X <= min THEN min
         ELSE IF plain_X < align THEN rnd_up(plain_X, min)
         ELSE rnd_up(plain_X, align)
    ELSE IF plain_X % default_block = 0 THEN rnd_up(default_block, align)
    ELSE LET num_X_block == divide_and_ceil(plain_X, default_block)
         IN  rnd_up(divide_and_ceil(plain_X, num_X_block), align)

ctor_iim_block(dt, pM, pN, pK, nt) ==
    IF pN <= 512 /\ pK <= 512
    THEN Max(4, Min(M_block_default(dt), divide_and_ceil(pM, nt)))
    ELSE suggest_aligned_block(pM, M_block_default(dt), 1, 1)

ctor_iin_block(dt, pN) == suggest_aligned_block(pN, N_block_default(dt), 1, 16)

ctor_iik_block(dt, pK) ==
    suggest_aligned_block(pK, K_block_default(dt),
        IF dt = "bf16" THEN 2 ELSE IF dt = "f32" THEN 1 ELSE 4, 16)

----------------------------------------------------------------------------
(* get_default_config: the pure parts *)

\* bug variant: s8 is forgotten
is_int8_u8(dt) == dt = "u8"

is_int8(dt) == dt \in {"u8", "s8"}

\* the padded extents M, N, K of get_default_config
PadM == divide_and_ceil(plain_M, iim_block) * iim_block
PadN == divide_and_ceil(plain_N, iin_block) * iin_block
PadK == divide_and_ceil(plain_K, iik_block) * iik_block

\* std::numeric_limits<float>::max(): the model stands for it with the largest
\* int, which no int-valued cost of the model reaches
FLT_MAX == 2147483647

\* the distance between two neighbouring floats around the int x
RECURSIVE FloatUlp(_)
FloatUlp(x) == IF x < 16777216 THEN 1 ELSE 2 * FloatUlp(x \div 2)

\* int -> float conversion (24-bit significand, round to nearest, ties to even)
ToFloat(x) ==
    LET u == FloatUlp(x)
        q == x \div u
        r == x % u
    IN  IF 2 * r < u THEN q * u
        ELSE IF 2 * r > u THEN (q + 1) * u
        ELSE IF q % 2 = 0 THEN q * u ELSE (q + 1) * u

num_core(ii, M, N, bm, bn, nt) ==
    Min(ii, N \div bn) * Min(nt \div ii, M \div bm)

num_brgemm(ii, M, N, bm, bn, nt) ==
    divide_and_ceil(M \div bm, nt \div ii) * divide_and_ceil(N \div bn, ii)

\* the int expression assigned to new_cost, before its conversion to float
IntCost(ii, M, N, bm, bn, nt) ==
    ((1024 + (M * ii) \div nt + N \div ii)
        * (num_brgemm(ii, M, N, bm, bn, nt) + 8 * ii))
      \div num_core(ii, M, N, bm, bn, nt)

new_cost(ii, M, N, bm, bn, nt) == ToFloat(IntCost(ii, M, N, bm, bn, nt))

\* bug variant: '<=' keeps the last of equally cheap candidates
SearchStep_le(ii, c, s, M, N, bm, bn, nt) ==
    LET nc == new_cost(ii, M, N, bm, bn, nt)
    IN  IF nc <= c THEN <<nc, ii>> ELSE <<c, s>>

\* one iteration of the search loop: the new <<cost, split_n>>
SearchStep(ii, c, s, M, N, bm, bn, nt) ==
    LET nc == new_cost(ii, M, N, bm, bn, nt)
    IN  IF nc < c THEN <<nc, ii>> ELSE <<c, s>>

\* the whole loop 'for (int i = 1; i <= num_threads; i++)', from iteration ii
RECURSIVE SearchLoop(_, _, _, _, _, _, _, _)
SearchLoop(ii, c, s, M, N, bm, bn, nt) ==
    IF ii > nt THEN s
    ELSE LET r == SearchStep(ii, c, s, M, N, bm, bn, nt)
         IN  SearchLoop(ii + 1, r[1], r[2], M, N, bm, bn, nt)

\* get_splits: the divisors of X, ascending
get_splits(X) ==
    LET F[k \in 0..X] ==
            IF k = 0 THEN <<>>
            ELSE IF X % k = 0 THEN Append(F[k - 1], k) ELSE F[k - 1]
    IN  F[X]

----------------------------------------------------------------------------
(* get_default_config as a state machine *)

\* shapes, cache sizes and thread counts the model constructs the op with
PlainMs == {1, 16, 64, 100, 384, 1024}
PlainNs == {48, 64, 192, 256, 768, 1024}
PlainKs == {64, 256, 1024, 8192}
L2Sizes == {262144, 2097152}
ThreadCounts == 1..MaxThreads \cup {16}

ConfigInit ==
    /\ dtype \in DTypes
    /\ plain_M \in PlainMs
    /\ plain_N \in PlainNs
    /\ plain_K \in PlainKs
    /\ num_threads \in ThreadCounts
    /\ L2_size \in L2Sizes
    /\ iim_block = ctor_iim_block(dtype, plain_M, plain_N, plain_K, num_threads)
    /\ iin_block = ctor_iin_block(dtype, plain_N)
    /\ iik_block = ctor_iik_block(dtype, plain_K)
    /\ pc = "search"
    /\ i = 1
    /\ cost = FLT_MAX
    /\ split_n = 1
       \* only im_loop_order is set before the search; the other fields are
       \* written before they are read
    /\ cfg = [M_split_num |-> 0, N_split_num |-> 0, M_sub_block |-> 0,
              N_sub_block |-> 0, K_sub_block |-> 0, im_loop_order |-> 0]
       \* balance211 is not being driven
    /\ b_n = 0 /\ b_team = 0 /\ b_idx = 0
    /\ b_starts = <<>> /\ b_lens = <<>> /\ b_T1 = 0
       \* generate is not running
    /\ B_dtype = "f32" /\ B_blocks2 = -1
    /\ is_blocking = FALSE /\ fusion = FALSE
    /\ g_pc = "idle" /\ err = ""
    /\ m_s = 0 /\ n_s = 0 /\ tid = 0
    /\ m_b = 0 /\ n_b = 0 /\ k_b = 0 /\ m_o = 0 /\ n_o = 0
    /\ log = <<>> /\ regions = <<>> /\ outer = <<>>
       \* no K-split plan is running
    /\ w_tid = <<>> /\ w_pos = <<>> /\ tmp = <<>> /\ out = <<>>
    /\ r_lm_ln = 0 /\ r_lks = 0 /\ reads = {} /\ anchors = <<>>
       \* no thread uses the threadpool interop calls
    /\ tp_tls = <<>> /\ tp_ret = <<>> /\ tp_out = <<>> /\ tp_last = <<>>
    /\ tp_ndebug = FALSE

inputVars == <<dtype, plain_M, plain_N, plain_K, num_threads, L2_size,
               iim_block, iin_block, iik_block>>

\* one iteration of 'for (int i = 1; i <= num_threads; i++)'
SearchIter ==
    /\ pc = "search"
    /\ i <= num_threads
    /\ LET r == SearchStep(i, cost, split_n, PadM, PadN, iim_block, iin_block,
                           num_threads)
       IN  /\ cost' = r[1]
           /\ split_n' = r[2]
    /\ i' = i + 1
    /\ UNCHANGED <<inputVars, pc, cfg, balVars, genVars, ksVars, tpVars>>

\* bug variant: M_split_num rounded up instead of down
SearchExit_ceil ==
    /\ pc = "search"
    /\ i > num_threads
    /\ cfg' = [cfg EXCEPT !.M_split_num = divide_and_ceil(num_threads, split_n),
                          !.N_split_num = split_n]
    /\ pc' = "override"
    /\ UNCHANGED <<inputVars, i, cost, split_n, balVars, genVars, ksVars, tpVars>>

\* the loop's exit and the two assignments after it
SearchExit ==
    /\ pc = "search"
    /\ i > num_threads
    /\ cfg' = [cfg EXCEPT !.M_split_num = num_threads \div split_n,
                          !.N_split_num = split_n]
    /\ pc' = "override"
    /\ UNCHANGED <<inputVars, i, cost, split_n, balVars, genVars, ksVars, tpVars>>

Int8Small == is_int8(dtype) /\ PadN <= 512 /\ PadK <= 512
VerySmall == PadN <= 192 /\ PadK <= 192
BigK == PadK >= 8192

\* if (is_int8 && N <= 512 && K <= 512)
OverrideInt8 ==
    /\ pc = "override"
    /\ Int8Small
    /\ cfg' = [cfg EXCEPT !.M_split_num = num_threads, !.N_split_num = 1]
    /\ pc' = "tile"
    /\ UNCHANGED <<inputVars, i, cost, split_n, balVars, genVars, ksVars, tpVars>>

\* else if (N <= 192 && K <= 192)
OverrideSmall ==
    /\ pc = "override"
    /\ ~Int8Small /\ VerySmall
    /\ cfg' = [cfg EXCEPT !.M_split_num = num_threads, !.N_split_num = 1]
    /\ pc' = "tile"
    /\ UNCHANGED <<inputVars, i, cost, split_n, balVars, genVars, ksVars, tpVars>>

\* bug variant: the collapse forgets 'cfg.M_split_num = 1'
OverrideBigK_MltN_keepM ==
    /\ pc = "override"
    /\ ~Int8Small /\ ~VerySmall /\ BigK
    /\ PadM < PadN
    /\ LET possible_splits == get_splits(cfg.M_split_num)
       IN  IF Len(possible_splits) > 2 /\ PadN \div PadM < 3
           THEN /\ cfg' = [cfg EXCEPT !.M_split_num =
                                cfg.M_split_num \div possible_splits[2]]
                /\ pc' = "tile"
           ELSE IF Len(get_splits(num_threads)) < 2
           THEN /\ cfg' = cfg
                /\ pc' = "out_of_range"
           ELSE LET K_split_num == get_splits(num_threads)[2]
                IN  /\ cfg' = [cfg EXCEPT
                                  !.N_split_num = num_threads \div K_split_num]
                    /\ pc' = "tile"
    /\ UNCHANGED <<inputVars, i, cost, split_n, balVars, genVars, ksVars, tpVars>>

\* else if (K >= 8192) { if (M < N) { ... get_splits(num_threads).at(1) ... } }
OverrideBigK_MltN ==
    /\ pc = "override"
    /\ ~Int8Small /\ ~VerySmall /\ BigK
    /\ PadM < PadN
    /\ LET possible_splits == get_splits(cfg.M_split_num)
       IN  IF Len(possible_splits) > 2 /\ PadN \div PadM < 3
           THEN /\ cfg' = [cfg EXCEPT !.M_split_num =
                                cfg.M_split_num \div possible_splits[2]]
                /\ pc' = "tile"
           ELSE IF Len(get_splits(num_threads)) < 2
           THEN \* vector::at(1) throws std::out_of_range
                /\ cfg' = [cfg EXCEPT !.M_split_num = 1]
                /\ pc' = "out_of_range"
           ELSE LET K_split_num == get_splits(num_threads)[2]
                IN  /\ cfg' = [cfg EXCEPT !.M_split_num = 1,
                                  !.N_split_num = num_threads \div K_split_num]
                    /\ pc' = "tile"
    /\ UNCHANGED <<inputVars, i, cost, split_n, balVars, genVars, ksVars, tpVars>>

\* bug variant: 'size() >= 2' lets a prime N_split_num be divided by itself
OverrideBigK_MgeN_ge2 ==
    /\ pc = "override"
    /\ ~Int8Small /\ ~VerySmall /\ BigK
    /\ PadM >= PadN
    /\ LET possible_splits == get_splits(cfg.N_split_num)
       IN  IF Len(possible_splits) >= 2
           THEN cfg' = [cfg EXCEPT !.N_split_num =
                            cfg.N_split_num \div possible_splits[2]]
           ELSE cfg' = cfg
    /\ pc' = "tile"
    /\ UNCHANGED <<inputVars, i, cost, split_n, balVars, genVars, ksVars, tpVars>>

\* else if (K >= 8192) { ... else { shrink N_split_num } }
OverrideBigK_MgeN ==
    /\ pc = "override"
    /\ ~Int8Small /\ ~VerySmall /\ BigK
    /\ PadM >= PadN
    /\ LET possible_splits == get_splits(cfg.N_split_num)
       IN  IF Len(possible_splits) > 2
           THEN cfg' = [cfg EXCEPT !.N_split_num =
                            cfg.N_split_num \div possible_splits[2]]
           ELSE cfg' = cfg
    /\ pc' = "tile"
    /\ UNCHANGED <<inputVars, i, cost, split_n, balVars, genVars, ksVars, tpVars>>

\* none of the three conditions holds
OverrideNone ==
    /\ pc = "override"
    /\ ~Int8Small /\ ~VerySmall /\ ~BigK
    /\ pc' = "tile"
    /\ UNCHANGED <<inputVars, i, cost, split_n, cfg, balVars, genVars, ksVars, tpVars>>

\* int L2_MN = (sqrt(pow(a, 2) + 4 * sizeofdtypeC * L2_size) - a)
\*               / (2 * sizeofdtypeC), a = 2 * sizeofdtypeA * L2_K:
\* the largest k with (a + 2*sizeofdtypeC*k)^2 <= a^2 + 4*sizeofdtypeC*L2_size,
\* that is k * (a + sizeofdtypeC * k) <= L2_size. The double arithmetic is exact
\* enough not to move the truncation: every operand is an integer below 2^53.
L2_MN_sqrt(a, sC, L2) ==
    CHOOSE k \in 0..(L2 \div a) :
        /\ k * (a + sC * k) <= L2
        /\ (k + 1) * (a + sC * (k + 1)) > L2

single_M == divide_and_ceil(divide_and_ceil(PadM, iim_block), cfg.M_split_num)
                * iim_block
single_N == divide_and_ceil(divide_and_ceil(PadN, iin_block), cfg.N_split_num)
                * iin_block
\* bug variant: the K of one K-split worker instead of the total K
single_K_per_worker ==
    PadK \div Max(1, num_threads \div (cfg.M_split_num * cfg.N_split_num))

single_K == PadK

single_K_threshold ==
    (IF single_M * single_N * sizeofdtypeA(dtype) < L2_size THEN 2048 ELSE 4096)
        \div sizeofdtypeA(dtype)

\* bug variant: the sub-block counts are not floored to 1
TileSize_nofloor ==
    /\ pc = "tile"
    /\ IF single_K >= single_K_threshold
       THEN LET K_sub_block == divide_and_ceil(single_K, single_K_threshold)
                L2_K == divide_and_ceil(divide_and_ceil(single_K, iik_block),
                                        K_sub_block) * iik_block
                L2_MN == L2_MN_sqrt(2 * sizeofdtypeA(dtype) * L2_K,
                                    sizeofdtypeC, L2_size)
            IN  /\ cfg' = [cfg EXCEPT
                            !.K_sub_block = K_sub_block,
                            !.M_sub_block = single_M \div L2_MN,
                            !.N_sub_block = single_N \div L2_MN]
                /\ pc' = "done"
       ELSE LET L2_MN == L2_size \div (2 * sizeofdtypeA(dtype) * single_K)
            IN  /\ cfg' = [cfg EXCEPT
                            !.M_sub_block = single_M \div L2_MN,
                            !.N_sub_block = single_N \div L2_MN,
                            !.K_sub_block = 1]
                /\ pc' = "done"
    /\ UNCHANGED <<inputVars, i, cost, split_n, balVars, genVars, ksVars, tpVars>>

\* the sub-block sizing that ends get_default_config
TileSize ==
    /\ pc = "tile"
    /\ IF single_K >= single_K_threshold
       THEN LET K_sub_block == divide_and_ceil(single_K, single_K_threshold)
                L2_K == divide_and_ceil(divide_and_ceil(single_K, iik_block),
                                        K_sub_block) * iik_block
                L2_MN == L2_MN_sqrt(2 * sizeofdtypeA(dtype) * L2_K,
                                    sizeofdtypeC, L2_size)
            IN  IF L2_MN = 0
                THEN \* single_M / L2_MN: integer division by zero
                     /\ cfg' = [cfg EXCEPT !.K_sub_block = K_sub_block]
                     /\ pc' = "div_by_zero"
                ELSE /\ cfg' = [cfg EXCEPT
                            !.K_sub_block = K_sub_block,
                            !.M_sub_block = Max(1, single_M \div L2_MN),
                            !.N_sub_block = Max(1, single_N \div L2_MN)]
                     /\ pc' = "done"
       ELSE LET L2_MN == L2_size \div (2 * sizeofdtypeA(dtype) * single_K)
            IN  IF L2_MN = 0
                THEN /\ cfg' = cfg
                     /\ pc' = "div_by_zero"
                ELSE /\ cfg' = [cfg EXCEPT
                            !.M_sub_block = Max(1, single_M \div L2_MN),
                            !.N_sub_block = Max(1, single_N \div L2_MN),
                            !.K_sub_block = 1]
                     /\ pc' = "done"
    /\ UNCHANGED <<inputVars, i, cost, split_n, balVars, genVars, ksVars, tpVars>>

----------------------------------------------------------------------------
(* generate: the derived sizes and the validation of the Config *)

MaxSubBlock == 2    \* supplied X_sub_block in 1 .. MaxSubBlock

M_split_num == cfg.M_split_num
N_split_num == cfg.N_split_num
K_split_num == (num_threads \div M_split_num) \div N_split_num

M_block_size ==
    divide_and_ceil(PadM \div iim_block, M_split_num) * iim_block
N_block_size ==
    divide_and_ceil(PadN \div iin_block, N_split_num) * iin_block
\* K_split_num = 0 makes lines 537-538 divide by zero; where the division
\* does not trap (DivideByZero below) its quotient is 0
K_block_size ==
    IF K_split_num = 0 THEN 0
    ELSE divide_and_ceil(PadK \div iik_block, K_split_num) * iik_block

M_ib_block_size ==
    LET ib == ((PadM \div iim_block) \div M_split_num) * iim_block
    IN  IF ib = 0 THEN M_block_size ELSE ib
N_ib_block_size ==
    LET ib == ((PadN \div iin_block) \div N_split_num) * iin_block
    IN  IF ib = 0 THEN N_block_size ELSE ib
K_ib_block_size ==
    LET ib == IF K_split_num = 0 THEN 0
              ELSE ((PadK \div iik_block) \div K_split_num) * iik_block
    IN  IF ib = 0 THEN K_block_size ELSE ib

\* M, N block num with block size equals to X_block_size
\* bug variant: every thread counts as one with the big share
M_blk_num_all == M_split_num

M_blk_num == (PadM - (M_block_size - iim_block) * M_split_num) \div iim_block
N_blk_num == (PadN - (N_block_size - iin_block) * N_split_num) \div iin_block

\* bug variant: s8 is not a packed dtype
dtype_block_u8(dt) ==
    IF dt = "bf16" THEN 2 ELSE IF dt = "u8" THEN 4 ELSE 1

dtype_block(dt) ==
    IF dt = "bf16" THEN 2 ELSE IF dt \in {"u8", "s8"} THEN 4 ELSE 1

\* the COMPILE_ASSERTs of generate in their order: the message of the first
\* one that fails, "" when all pass
ValidationOutcome ==
    IF ~(/\ M_block_size \div iim_block >= cfg.M_sub_block
         /\ M_ib_block_size \div iim_block >= cfg.M_sub_block)
    THEN "bad M_sub_block given"
    ELSE IF ~(/\ N_block_size \div iin_block >= cfg.N_sub_block
              /\ N_ib_block_size \div iin_block >= cfg.N_sub_block)
    THEN "bad N_sub_block given"
    ELSE IF ~(/\ K_block_size \div iik_block >= cfg.K_sub_block
              /\ K_ib_block_size \div iik_block >= cfg.K_sub_block)
    THEN "bad K_sub_block given"
    ELSE IF /\ dtype_block(B_dtype) > 1
            /\ ~(B_blocks2 = -1 \/ B_blocks2 = dtype_block(B_dtype))
    THEN "Wrong data format of B"
    ELSE ""

M_anchor_info == <<M_blk_num, M_block_size, M_ib_block_size>>
N_anchor_info == <<N_blk_num, N_block_size, N_ib_block_size>>

M_real_split == Min(divide_and_ceil(PadM, iim_block), M_split_num)
N_real_split == Min(divide_and_ceil(PadN, iin_block), N_split_num)

\* A dtype, B dtype and the packing block the format of B declares
Operands ==
    {<<"f32", "f32", -1>>, <<"f32", "f32", 2>>,
     <<"bf16", "bf16", -1>>, <<"bf16", "bf16", 2>>, <<"bf16", "bf16", 4>>,
     <<"u8", "s8", 4>>, <<"s8", "s8", 2>>}

\* shapes, thread counts and splits the model calls generate with
GenPlainMs == {16, 48, 80}
GenPlainNs == {16, 48}
GenPlainKs == {32}
GenThreadCounts == {1, 2, 4}
SplitNums == {1, 2}

\* generate is called on a constructed op with a Config the caller supplies
GenerateInit ==
    /\ \E op \in Operands :
          /\ dtype = op[1]
          /\ B_dtype = op[2]
          /\ B_blocks2 = op[3]
    /\ plain_M \in GenPlainMs
    /\ plain_N \in GenPlainNs
    /\ plain_K \in GenPlainKs
    /\ num_threads \in GenThreadCounts
    /\ L2_size = 0
    /\ iim_block = ctor_iim_block(dtype, plain_M, plain_N, plain_K, num_threads)
    /\ iin_block = ctor_iin_block(dtype, plain_N)
    /\ iik_block = ctor_iik_block(dtype, plain_K)
    /\ cfg \in [M_split_num : SplitNums, N_split_num : SplitNums,
                M_sub_block : 1..MaxSubBlock, N_sub_block : 1..MaxSubBlock,
                K_sub_block : 1..MaxSubBlock, im_loop_order : {0, 1}]
    /\ is_blocking \in BOOLEAN
    /\ fusion \in BOOLEAN
    /\ g_pc = "validate" /\ err = ""
    /\ m_s = 0 /\ n_s = 0 /\ tid = 0
    /\ m_b = 0 /\ n_b = 0 /\ k_b = 0 /\ m_o = 0 /\ n_o = 0
    /\ log = <<>> /\ regions = <<>> /\ outer = <<>>
       \* no K-split plan is running
    /\ w_tid = <<>> /\ w_pos = <<>> /\ tmp = <<>> /\ out = <<>>
    /\ r_lm_ln = 0 /\ r_lks = 0 /\ reads = {} /\ anchors = <<>>
       \* no thread uses the threadpool interop calls
    /\ tp_tls = <<>> /\ tp_ret = <<>> /\ tp_out = <<>> /\ tp_last = <<>>
    /\ tp_ndebug = FALSE
       \* get_default_config is not running
    /\ pc = "supplied" /\ i = 0 /\ cost = 0 /\ split_n = 0
       \* balance211 is not being driven
    /\ b_n = 0 /\ b_team = 0 /\ b_idx = 0
    /\ b_starts = <<>> /\ b_lens = <<>> /\ b_T1 = 0

loopVars == <<m_s, n_s, tid, m_b, n_b, k_b, m_o, n_o, log, regions, outer>>
genInputs == <<B_dtype, B_blocks2, is_blocking, fusion>>

\* lines 536-538 with K_split_num = 0: the division traps
DivideByZero ==
    /\ g_pc = "validate"
    /\ K_split_num = 0
    /\ g_pc' = "div_by_zero"
    /\ UNCHANGED <<err, loopVars, genInputs, cfgVars, balVars, ksVars, tpVars>>

\* a COMPILE_ASSERT fails: generate throws before anything is emitted
Reject ==
    /\ g_pc = "validate"
    /\ ValidationOutcome # ""
    /\ g_pc' = "rejected"
    /\ err' = ValidationOutcome
    /\ UNCHANGED <<loopVars, genInputs, cfgVars, balVars, ksVars, tpVars>>

\* all COMPILE_ASSERTs pass and K_split_num == 1: the parallel loops begin
Accept ==
    /\ g_pc = "validate"
    /\ ValidationOutcome = ""
    /\ K_split_num = 1
    /\ g_pc' = "thread"
    /\ UNCHANGED <<err, loopVars, genInputs, cfgVars, balVars, ksVars, tpVars>>

\* all COMPILE_ASSERTs pass and K_split_num > 1: the plan writes partial sums
\* into a temp buffer and reduces them
AcceptKSplit ==
    /\ g_pc = "validate"
    /\ ValidationOutcome = ""
    /\ K_split_num > 1
    /\ g_pc' = "k_split"
    /\ UNCHANGED <<err, loopVars, genInputs, cfgVars, balVars, ksVars, tpVars>>

----------------------------------------------------------------------------
(* generate with K_split_num == 1: the parallel loops, and            *)
(* single_thread_matmul_call for the thread (m_s, n_s)                 *)

\* balance211 of the M and N blocks over the threads (lines 592-600)
M_thr == get_balance211_length(PadM \div iim_block, M_split_num, m_s)
N_thr == get_balance211_length(PadN \div iin_block, N_split_num, n_s)
\* bug variant: every thread is given the bigger size
M_single_thr_size_big == M_block_size

M_single_thr_size == M_thr.length * iim_block
N_single_thr_size == N_thr.length * iin_block
m_idx == M_thr.n_start * iim_block
n_idx == N_thr.n_start * iin_block

\* balance211 of the thread's blocks over its sub-blocks (lines 293-298)
M_sub ==
    get_balance211_length(M_single_thr_size \div iim_block, cfg.M_sub_block,
                          m_b)
N_sub ==
    get_balance211_length(N_single_thr_size \div iin_block, cfg.N_sub_block,
                          n_b)
m_o_end == M_sub.length
n_o_end == N_sub.length
m_b_idx == M_sub.n_start
n_b_idx == N_sub.n_start
m_b_bigger_num == M_sub.T1
n_b_bigger_num == N_sub.T1

\* bug variant: the thread id scales the block index instead of shifting it
rotate_mul(o, t, end) == (o * t) % end

\* rolling M and N
rotate(o, t, end) == (o + t) % end

m_start_idx ==
    m_idx + m_b_idx * iim_block + rotate(m_o, tid, m_o_end) * iim_block
n_start_idx ==
    n_idx + n_b_idx * iin_block + rotate(n_o, tid, n_o_end) * iin_block

\* bug variant: every call is the init variant
GemmKind_init(kb) == "init"

\* brgemm_init_update for k_b == 0, brgemm_update otherwise
GemmKind(kb) == IF kb = 0 THEN "init" ELSE "update"

\* a slice {m0, ml}, {n0, nl} of the plain output, in elements
PlainSlice(m0, ml, n0, nl) == [m |-> m0, ml |-> ml, n |-> n0, nl |-> nl]

\* a slice {mb0, mlb}, {nb0, nlb}, {0, iim_block}, {0, iin_block} of the
\* blocked output, as the elements it covers
BlockedSlice(mb0, mlb, nb0, nlb) ==
    [m |-> mb0 * iim_block, ml |-> mlb * iim_block,
     n |-> nb0 * iin_block, nl |-> nlb * iin_block]

\* an entry of the thread's log: a GEMM call on the block at (m, n) or an
\* anchor on a slice, stamped with the iterators it was issued under
Event(kind, slice) ==
    [kind |-> kind, m |-> slice.m, ml |-> slice.ml, n |-> slice.n,
     nl |-> slice.nl, k |-> k_b, mb |-> m_b, nb |-> n_b]

\* the anchor after the last K-sub-block of a block (lines 352-364)
BlockAnchor ==
    IF ~is_blocking
    THEN PlainSlice(m_start_idx, iim_block, n_start_idx, iin_block)
    ELSE BlockedSlice(m_start_idx \div iim_block, 1,
                      n_start_idx \div iin_block, 1)

\* a thread enters single_thread_matmul_call
ThreadStart ==
    /\ g_pc = "thread"
    /\ m_s < M_real_split
    /\ n_s < N_real_split
    /\ tid' \in 0..(num_threads - 1)
    /\ m_b' = 0 /\ n_b' = 0 /\ k_b' = 0 /\ m_o' = 0 /\ n_o' = 0
    /\ log' = <<>>
    /\ g_pc' = "gemm"
    /\ UNCHANGED <<err, m_s, n_s, regions, outer, genInputs, cfgVars, balVars, ksVars, tpVars>>

\* one iteration of the innermost loop: the GEMM call on one block and, after
\* the last K-sub-block, the block's anchor; then the loop nest advances
\* (im_loop_order == 1 puts the n_o loop outside the m_o loop)
GemmCall ==
    /\ g_pc = "gemm"
    /\ k_b < cfg.K_sub_block
    /\ m_o < m_o_end
    /\ n_o < n_o_end
    /\ LET call == Event(GemmKind(k_b),
                         PlainSlice(m_start_idx, iim_block,
                                    n_start_idx, iin_block))
           anchored == fusion /\ k_b = cfg.K_sub_block - 1
       IN  log' = IF anchored
                  THEN log \o <<call, Event("anchor_block", BlockAnchor)>>
                  ELSE Append(log, call)
    /\ IF cfg.im_loop_order # 1
       THEN IF n_o + 1 < n_o_end
            THEN /\ n_o' = n_o + 1
                 /\ UNCHANGED <<m_o, k_b, g_pc>>
            ELSE IF m_o + 1 < m_o_end
            THEN /\ n_o' = 0 /\ m_o' = m_o + 1
                 /\ UNCHANGED <<k_b, g_pc>>
            ELSE /\ n_o' = 0 /\ m_o' = 0 /\ k_b' = k_b + 1
                 /\ g_pc' = IF k_b + 1 < cfg.K_sub_block
                            THEN "gemm" ELSE "sub_block_end"
       ELSE IF m_o + 1 < m_o_end
            THEN /\ m_o' = m_o + 1
                 /\ UNCHANGED <<n_o, k_b, g_pc>>
            ELSE IF n_o + 1 < n_o_end
            THEN /\ m_o' = 0 /\ n_o' = n_o + 1
                 /\ UNCHANGED <<k_b, g_pc>>
            ELSE /\ n_o' = 0 /\ m_o' = 0 /\ k_b' = k_b + 1
                 /\ g_pc' = IF k_b + 1 < cfg.K_sub_block
                            THEN "gemm" ELSE "sub_block_end"
    /\ UNCHANGED <<err, m_s, n_s, tid, m_b, n_b, regions, outer, genInputs,
                   cfgVars, balVars, ksVars, tpVars>>

\* case 1 of the sub-block anchor: no imbalance on a single core and
\* X_sub_block divides evenly
SubBlockEven ==
    /\ M_anchor_info[2] = M_anchor_info[3]
    /\ N_anchor_info[2] = N_anchor_info[3]
    /\ (M_anchor_info[2] \div iim_block) % cfg.M_sub_block = 0
    /\ (N_anchor_info[2] \div iin_block) % cfg.N_sub_block = 0

SubBlockEvenSlice ==
    IF ~is_blocking
    THEN PlainSlice(m_idx + m_b_idx * iim_block,
                    M_anchor_info[2] \div cfg.M_sub_block,
                    n_idx + n_b_idx * iin_block,
                    N_anchor_info[2] \div cfg.N_sub_block)
    ELSE BlockedSlice((m_idx + m_b_idx * iim_block) \div iim_block,
                      (M_anchor_info[2] \div iim_block) \div cfg.M_sub_block,
                      (n_idx + n_b_idx * iin_block) \div iin_block,
                      (N_anchor_info[2] \div iin_block) \div cfg.N_sub_block)

\* the candidate built in iteration (p, q, i, j) of lines 393-436
SubBlockCandidate(pp, qq, ii, jj) ==
    IF ~is_blocking
    THEN LET length_M ==
                 M_anchor_info[pp + 2] \div cfg.M_sub_block
                 + IF (M_anchor_info[pp + 2] \div iim_block)
                          % cfg.M_sub_block # 0
                   THEN (1 - ii) * iim_block ELSE 0
             length_N ==
                 N_anchor_info[qq + 2] \div cfg.N_sub_block
                 + IF (N_anchor_info[qq + 2] \div iin_block)
                          % cfg.N_sub_block # 0
                   THEN (1 - jj) * iin_block ELSE 0
         IN  PlainSlice(m_idx + m_b_idx * iim_block, length_M,
                        n_idx + n_b_idx * iin_block, length_N)
    ELSE LET length_M ==
                 (M_anchor_info[pp + 2] \div iim_block) \div cfg.M_sub_block
                 + IF (M_anchor_info[pp + 2] \div iim_block)
                          % cfg.M_sub_block # 0
                   THEN 1 - ii ELSE 0
             length_N ==
                 (N_anchor_info[qq + 2] \div iin_block) \div cfg.N_sub_block
                 + IF (N_anchor_info[qq + 2] \div iin_block)
                          % cfg.N_sub_block # 0
                   THEN 1 - jj ELSE 0
         IN  BlockedSlice((m_idx + m_b_idx * iim_block) \div iim_block,
                          length_M,
                          (n_idx + n_b_idx * iin_block) \div iin_block,
                          length_N)

\* mm_multi_slice of the sub-block anchor, in emplace_back order
sub_multi_slice ==
    [x \in 1..16 |->
        SubBlockCandidate((x - 1) \div 8, ((x - 1) \div 4) % 2,
                          ((x - 1) \div 2) % 2, (x - 1) % 2)]

\* the if-else tree of lines 439-484
anchor_iter ==
    IF m_s < M_anchor_info[1]
    THEN IF n_s < N_anchor_info[1]
         THEN IF m_b < m_b_bigger_num
              THEN IF n_b < n_b_bigger_num THEN 0 ELSE 1
              ELSE IF n_b < n_b_bigger_num THEN 2 ELSE 3
         ELSE IF m_b < m_b_bigger_num
              THEN IF n_b < n_b_bigger_num THEN 4 ELSE 5
              ELSE IF n_b < n_b_bigger_num THEN 6 ELSE 7
    ELSE IF n_s < N_anchor_info[1]
         THEN IF m_b < m_b_bigger_num
              THEN IF n_b < n_b_bigger_num THEN 8 ELSE 9
              ELSE IF n_b < n_b_bigger_num THEN 10 ELSE 11
         ELSE IF m_b < m_b_bigger_num
              THEN IF n_b < n_b_bigger_num THEN 12 ELSE 13
              ELSE IF n_b < n_b_bigger_num THEN 14 ELSE 15

SubBlockAnchor ==
    IF SubBlockEven THEN SubBlockEvenSlice
    ELSE sub_multi_slice[anchor_iter + 1]

\* the k_b loop of a sub-block has ended: its anchor, then the next (m_b, n_b)
SubBlockEnd ==
    /\ g_pc = "sub_block_end"
    /\ log' = IF fusion
              THEN Append(log, [Event("anchor_sub", SubBlockAnchor)
                                    EXCEPT !.k = cfg.K_sub_block - 1])
              ELSE log
    /\ k_b' = 0 /\ m_o' = 0 /\ n_o' = 0
    /\ IF n_b + 1 < cfg.N_sub_block
       THEN /\ n_b' = n_b + 1
            /\ UNCHANGED m_b
            /\ g_pc' = "gemm"
       ELSE IF m_b + 1 < cfg.M_sub_block
       THEN /\ n_b' = 0 /\ m_b' = m_b + 1
            /\ g_pc' = "gemm"
       ELSE /\ UNCHANGED <<m_b, n_b>>
            /\ g_pc' = "thread_anchor"
    /\ UNCHANGED <<err, m_s, n_s, tid, regions, outer, genInputs, cfgVars,
                   balVars, ksVars, tpVars>>

\* candidate (i, j) of the thread-level anchor (lines 614-628)
ThreadCandidate(ii, jj) ==
    LET M_length == IF ii = 0 THEN M_block_size ELSE M_ib_block_size
        N_length == IF jj = 0 THEN N_block_size ELSE N_ib_block_size
    IN  IF is_blocking
        THEN BlockedSlice(m_idx \div iim_block, M_length \div iim_block,
                          n_idx \div iin_block, N_length \div iin_block)
        ELSE PlainSlice(m_idx, M_length, n_idx, N_length)

\* the anchor after the thread's loops (lines 629-679): the single slice, or
\* the slice middle_anchor_iter selects in what is left of mm_multi_slice
ThreadAnchorSlice ==
    LET mm_multi_slice == <<ThreadCandidate(0, 0), ThreadCandidate(0, 1),
                            ThreadCandidate(1, 0), ThreadCandidate(1, 1)>>
    IN  IF M_block_size = M_ib_block_size /\ N_block_size = N_ib_block_size
        THEN ThreadCandidate(0, 0)
        ELSE IF M_block_size = M_ib_block_size
        THEN SubSeq(mm_multi_slice, 1, 2)[IF n_s < N_blk_num THEN 1 ELSE 2]
        ELSE IF N_block_size = N_ib_block_size
        THEN <<mm_multi_slice[1], mm_multi_slice[3]>>
                 [IF m_s < M_blk_num THEN 1 ELSE 2]
        ELSE mm_multi_slice[IF m_s < M_blk_num
                            THEN IF n_s < N_blk_num THEN 1 ELSE 2
                            ELSE IF n_s < N_blk_num THEN 3 ELSE 4]

\* single_thread_matmul_call has returned: the thread-level anchor
ThreadEnd ==
    /\ g_pc = "thread_anchor"
    /\ log' = IF fusion /\ m_idx < PadM /\ n_idx < PadN
              THEN Append(log, [Event("anchor_thread", ThreadAnchorSlice)
                                    EXCEPT !.k = cfg.K_sub_block - 1])
              ELSE log
    /\ regions' = Append(regions,
                         PlainSlice(m_idx, M_single_thr_size,
                                    n_idx, N_single_thr_size))
    /\ g_pc' = "thread_done"
    /\ UNCHANGED <<err, m_s, n_s, tid, m_b, n_b, k_b, m_o, n_o, outer,
                   genInputs, cfgVars, balVars, ksVars, tpVars>>

\* the anchor after the n_s loop, given when N_split_num == 1 (lines 683-714)
OuterAnchorSlice ==
    LET big == IF is_blocking
               THEN BlockedSlice(m_idx \div iim_block,
                                 M_block_size \div iim_block,
                                 0, divide_and_ceil(PadN, iin_block))
               ELSE PlainSlice(m_idx, M_block_size, 0, PadN)
        ib  == IF is_blocking
               THEN BlockedSlice(m_idx \div iim_block,
                                 M_ib_block_size \div iim_block,
                                 0, divide_and_ceil(PadN, iin_block))
               ELSE PlainSlice(m_idx, M_ib_block_size, 0, PadN)
    IN  IF M_block_size = M_ib_block_size THEN big
        ELSE <<big, ib>>[IF m_s < M_blk_num THEN 1 ELSE 2]

\* the n_s loop steps; at its end the outer anchor is created and the m_s
\* loop steps
NextThread ==
    /\ g_pc = "thread_done"
    /\ IF n_s + 1 < N_real_split
       THEN /\ n_s' = n_s + 1
            /\ g_pc' = "thread"
            /\ UNCHANGED <<m_s, outer>>
       ELSE /\ outer' = IF fusion /\ N_split_num = 1
                        THEN Append(outer, OuterAnchorSlice)
                        ELSE outer
            /\ n_s' = 0
            /\ m_s' = m_s + 1
            /\ g_pc' = IF m_s + 1 < M_real_split THEN "thread" ELSE "emitted"
    /\ UNCHANGED <<err, tid, m_b, n_b, k_b, m_o, n_o, log, regions,
                   genInputs, cfgVars, balVars, ksVars, tpVars>>

\* rectangles of the output
Overlap(a, b) ==
    /\ a.m < b.m + b.ml /\ b.m < a.m + a.ml
    /\ a.n < b.n + b.nl /\ b.n < a.n + a.nl

Inside(a, r) ==
    /\ r.m <= a.m /\ a.m + a.ml <= r.m + r.ml
    /\ r.n <= a.n /\ a.n + a.nl <= r.n + r.nl

\* the region generate assigned to the running thread
ThreadRegion == PlainSlice(m_idx, M_single_thr_size, n_idx, N_single_thr_size)

\* the block of the padded output at block coordinates (bm, bn)
OutputBlock(bm, bn) ==
    PlainSlice(bm * iim_block, iim_block, bn * iin_block, iin_block)

----------------------------------------------------------------------------
(* generate with K_split_num > 1: the K-split workers write partial sums   *)
(* into out_tmp_buf, then each (m_s, n_s) tile is reduced into C.          *)
(* The tiles are run one after the other, the K-split workers of a tile    *)
(* interleave, and the reduction of a tile visits its blocks in loop order *)
(* (its parallel iterations touch disjoint blocks).  A K block stands for  *)
(* the product of that block of A and B: a buffer or output block holds    *)
(* the sequence of K blocks accumulated into it, -1 for a value read from  *)
(* outside out_tmp_buf.                                                    *)

\* the plans <<M, N, K, num_threads, M_split_num, N_split_num>> the model
\* builds: two K-split workers with fewer, as many and more K blocks than
\* workers; four declared workers on two K blocks; two workers on each of
\* two tiles, split along M or along N; and plans that do not split K or
\* ask for more workers than threads
KsCases ==
    ({16} \X {16} \X {16, 32, 64} \X {2} \X {1} \X {1})
        \cup ({16} \X {16} \X {32} \X {4} \X {1} \X {1})
        \cup ({16} \X {16, 32} \X {16, 32} \X {4} \X {2} \X {1})
        \cup ({16} \X {32} \X {32} \X {4} \X {1} \X {2})
        \cup ({16} \X {16} \X {32} \X {2} \X {1, 2} \X {2})

K_real_split == Min(divide_and_ceil(PadK, iik_block), K_split_num)

KSplitInit ==
    /\ dtype = "f32" /\ B_dtype = "f32" /\ B_blocks2 = -1
    /\ \E case \in KsCases :
          /\ plain_M = case[1] /\ plain_N = case[2]
          /\ plain_K = case[3] /\ num_threads = case[4]
          /\ cfg \in [M_split_num : {case[5]}, N_split_num : {case[6]},
                      M_sub_block : 1..MaxSubBlock, N_sub_block : {1},
                      K_sub_block : 1..MaxSubBlock, im_loop_order : {0, 1}]
    /\ L2_size = 0
    /\ iim_block = ctor_iim_block(dtype, plain_M, plain_N, plain_K, num_threads)
    /\ iin_block = ctor_iin_block(dtype, plain_N)
    /\ iik_block = ctor_iik_block(dtype, plain_K)
    /\ is_blocking \in BOOLEAN
    /\ fusion \in BOOLEAN
    /\ g_pc = "validate" /\ err = ""
    /\ m_s = 0 /\ n_s = 0 /\ tid = 0
    /\ m_b = 0 /\ n_b = 0 /\ k_b = 0 /\ m_o = 0 /\ n_o = 0
    /\ log = <<>> /\ regions = <<>> /\ outer = <<>>
    /\ w_tid = <<>> /\ w_pos = <<>> /\ tmp = <<>> /\ out = <<>>
    /\ r_lm_ln = 0 /\ r_lks = 0 /\ reads = {} /\ anchors = <<>>
       \* get_default_config is not running
    /\ pc = "supplied" /\ i = 0 /\ cost = 0 /\ split_n = 0
       \* balance211 is not being driven
    /\ b_n = 0 /\ b_team = 0 /\ b_idx = 0
    /\ b_starts = <<>> /\ b_lens = <<>> /\ b_T1 = 0
       \* no thread uses the threadpool interop calls
    /\ tp_tls = <<>> /\ tp_ret = <<>> /\ tp_out = <<>> /\ tp_last = <<>>
    /\ tp_ndebug = FALSE

\* balance211 of the K blocks over the K-split workers (lines 746-749)
K_thr(ks) == get_balance211_length(PadK \div iik_block, K_split_num, ks)
K_single_thr_size(ks) == K_thr(ks).length * iik_block
k_idx(ks) == K_thr(ks).n_start * iik_block

\* balance211 of a worker's blocks over its sub-blocks (lines 293-298, 311)
M_sub_of(mb) ==
    get_balance211_length(M_single_thr_size \div iim_block, cfg.M_sub_block,
                          mb)
N_sub_of(nb) ==
    get_balance211_length(N_single_thr_size \div iin_block, cfg.N_sub_block,
                          nb)
K_sub_of(ks, kb) ==
    get_balance211_length(K_single_thr_size(ks) \div iik_block,
                          cfg.K_sub_block, kb)

\* bug variant: every worker writes slot 0 of out_tmp_buf
PartialCall_slot0(ks, t, mb, nb, kb, mo, no) ==
    [slot |-> 0,
     m    |-> m_idx + M_sub_of(mb).n_start * iim_block
                    + rotate(mo, t, M_sub_of(mb).length) * iim_block,
     n    |-> n_idx + N_sub_of(nb).n_start * iin_block
                    + rotate(no, t, N_sub_of(nb).length) * iin_block,
     kind |-> GemmKind(kb),
     k0   |-> (k_idx(ks) + K_sub_of(ks, kb).n_start * iik_block)
                  \div iik_block,
     bs   |-> K_sub_of(ks, kb).length]

\* the GEMM call of worker ks with thread id t in iteration
\* (mb, nb, kb, mo, no): it targets slot ks of out_tmp_buf (cidx gets k_s in
\* front, line 330) and multiplies the bs K blocks from k_start_idx on
PartialCall(ks, t, mb, nb, kb, mo, no) ==
    [slot |-> ks,
     m    |-> m_idx + M_sub_of(mb).n_start * iim_block
                    + rotate(mo, t, M_sub_of(mb).length) * iim_block,
     n    |-> n_idx + N_sub_of(nb).n_start * iin_block
                    + rotate(no, t, N_sub_of(nb).length) * iin_block,
     kind |-> GemmKind(kb),
     k0   |-> (k_idx(ks) + K_sub_of(ks, kb).n_start * iik_block)
                  \div iik_block,
     bs   |-> K_sub_of(ks, kb).length]

RECURSIVE Flatten(_)
Flatten(ss) == IF ss = <<>> THEN <<>> ELSE Head(ss) \o Flatten(Tail(ss))

\* the m_o and n_o loops of one K-sub-block, in the order im_loop_order gives
BlockLoop(ks, t, mb, nb, kb) ==
    LET me == M_sub_of(mb).length
        ne == N_sub_of(nb).length
    IN  IF cfg.im_loop_order # 1
        THEN Flatten([mo \in 1..me |->
                 [no \in 1..ne |->
                     PartialCall(ks, t, mb, nb, kb, mo - 1, no - 1)]])
        ELSE Flatten([no \in 1..ne |->
                 [mo \in 1..me |->
                     PartialCall(ks, t, mb, nb, kb, mo - 1, no - 1)]])

\* the GEMM calls of single_thread_matmul_call for worker ks, in order
PartialCalls(ks, t) ==
    Flatten([mb \in 1..cfg.M_sub_block |->
        Flatten([nb \in 1..cfg.N_sub_block |->
            Flatten([kb \in 1..cfg.K_sub_block |->
                BlockLoop(ks, t, mb - 1, nb - 1, kb - 1)])])])

\* the K blocks k0 .. k0 + bs - 1
KRange(k0, bs) == [x \in 1..bs |-> k0 + x - 1]

\* thread ids a worker is run with
TidChoices == {0, num_threads - 1}

\* the workers of the tile (m_s, n_s), none of them started: w_tid is the
\* thread id a worker runs with (-1 before it starts), w_pos the GEMM calls it
\* still has to make
FreshWorkers == [ks \in 0..(K_real_split - 1) |-> <<>>]
FreshTids == [ks \in 0..(K_real_split - 1) |-> -1]

\* out_tmp_buf is declared with K_real_split slots (lines 718-730) and the
\* parallel loops begin; C holds nothing yet
KSplitStart ==
    /\ g_pc = "k_split"
    /\ tmp' = [key \in (0..(K_real_split - 1))
                       \X (0..((PadM \div iim_block) - 1))
                       \X (0..((PadN \div iin_block) - 1)) |->
                  [terms |-> <<>>, writers |-> {}]]
    /\ out' = [key \in (0..((PadM \div iim_block) - 1))
                       \X (0..((PadN \div iin_block) - 1)) |->
                  [zeroed |-> FALSE, terms |-> <<>>]]
    /\ w_pos' = FreshWorkers
    /\ w_tid' = FreshTids
    /\ g_pc' = "k_partial"
    /\ UNCHANGED <<err, loopVars, genInputs, r_lm_ln, r_lks, reads, anchors,
                   cfgVars, balVars, tpVars>>

\* worker ks enters single_thread_matmul_call and reads its thread id
\* (line 287)
WorkerStart ==
    /\ g_pc = "k_partial"
    /\ \E ks \in DOMAIN w_tid :
          /\ w_tid[ks] = -1
          /\ \E t \in TidChoices :
                /\ w_tid' = [w_tid EXCEPT ![ks] = t]
                /\ w_pos' = [w_pos EXCEPT ![ks] = PartialCalls(ks, t)]
    /\ UNCHANGED <<g_pc, err, loopVars, genInputs, tmp, out, r_lm_ln, r_lks,
                   reads, anchors, cfgVars, balVars, tpVars>>

\* the next GEMM call of one running K-split worker: an init call overwrites
\* the block of its slot, an update call accumulates into it
PartialGemm ==
    /\ g_pc = "k_partial"
    /\ \E ks \in DOMAIN w_pos :
          /\ w_pos[ks] # <<>>
          /\ LET call == Head(w_pos[ks])
                 key == <<call.slot, call.m \div iim_block,
                          call.n \div iin_block>>
             IN  tmp' = [tmp EXCEPT ![key] =
                     [terms |-> IF call.kind = "init"
                                THEN KRange(call.k0, call.bs)
                                ELSE @.terms \o KRange(call.k0, call.bs),
                      writers |-> @.writers \cup {<<m_s, n_s, ks>>}]]
          /\ w_pos' = [w_pos EXCEPT ![ks] = Tail(@)]
    /\ UNCHANGED <<g_pc, err, loopVars, genInputs, w_tid, out, r_lm_ln, r_lks,
                   reads, anchors, cfgVars, balVars, tpVars>>

\* bug variant: the reduction does not wait for the workers
Joined_none == TRUE

\* the parallel k_s loop has ended: every worker of the tile has returned
Joined == \A ks \in DOMAIN w_pos : w_tid[ks] # -1 /\ w_pos[ks] = <<>>

\* the code after the k_s loop is reached (line 756)
Join ==
    /\ g_pc = "k_partial"
    /\ Joined
    /\ g_pc' = "k_zero"
    /\ r_lm_ln' = 0
    /\ r_lks' = 0
    /\ UNCHANGED <<err, loopVars, genInputs, w_tid, w_pos, tmp, out, reads,
                   anchors, cfgVars, balVars, tpVars>>

\* the reduction of the tile (lines 756-887)
M_single_thr_num_block == divide_and_ceil(M_single_thr_size, iim_block)
N_single_thr_num_block == divide_and_ceil(N_single_thr_size, iin_block)

\* the block iteration lm_ln of the reduction is at.  For the plain layout
\* the lm_ln loop runs over the elements of the region; the model takes the
\* elements of one block together.
lm == r_lm_ln \div N_single_thr_num_block
ln == r_lm_ln % N_single_thr_num_block
\* bug variant: every iteration reduces the first block of the tile
ReduceBlock_first == <<m_idx \div iim_block, n_idx \div iin_block>>

ReduceBlock == <<(m_idx \div iim_block) + lm, (n_idx \div iin_block) + ln>>

Anchor(kind, slice) ==
    [kind |-> kind, m |-> slice.m, ml |-> slice.ml, n |-> slice.n,
     nl |-> slice.nl]

Read(lks) ==
    [ms |-> m_s, ns |-> n_s, slot |-> lks, bm |-> ReduceBlock[1],
     bn |-> ReduceBlock[2]]

\* blocked layout: mem_zero of the block (lines 771-775).  The guard
\* 'm_idx < M && n_idx < N' of lines 771 and 801 holds for every tile the
\* loops run: m_s < M_real_split and n_s < N_real_split give it blocks.
BlockedZero ==
    /\ g_pc = "k_zero"
    /\ is_blocking
    /\ out' = [out EXCEPT ![ReduceBlock] = [zeroed |-> TRUE, terms |-> <<>>]]
    /\ r_lks' = 0
    /\ g_pc' = "k_add"
    /\ UNCHANGED <<err, loopVars, genInputs, w_tid, w_pos, tmp, r_lm_ln,
                   reads, anchors, cfgVars, balVars, tpVars>>

\* blocked layout: one iteration of 'for lks in [0, K_real_split)' adds slot
\* lks of the block to C (lines 776-791)
BlockedAdd ==
    /\ g_pc = "k_add"
    /\ is_blocking
    /\ r_lks < K_real_split
    /\ out' = [out EXCEPT ![ReduceBlock] =
                  [@ EXCEPT !.terms =
                      @ \o tmp[<<r_lks, ReduceBlock[1], ReduceBlock[2]>>].terms]]
    /\ reads' = reads \cup {Read(r_lks)}
    /\ r_lks' = r_lks + 1
    /\ UNCHANGED <<g_pc, err, loopVars, genInputs, w_tid, w_pos, tmp, r_lm_ln,
                   anchors, cfgVars, balVars, tpVars>>

\* blocked layout: the lks loop has ended; the block's anchor, then the next
\* lm_ln (lines 792-799)
BlockedAnchor ==
    /\ g_pc = "k_add"
    /\ is_blocking
    /\ r_lks = K_real_split
    /\ anchors' = IF fusion
                  THEN Append(anchors,
                           Anchor("block",
                               BlockedSlice((m_idx \div iim_block) + lm, 1,
                                            (n_idx \div iin_block) + ln, 1)))
                  ELSE anchors
    /\ r_lm_ln' = r_lm_ln + 1
    /\ r_lks' = 0
    /\ g_pc' = IF r_lm_ln + 1
                     < M_single_thr_num_block * N_single_thr_num_block
               THEN "k_zero" ELSE "k_tile_end"
    /\ UNCHANGED <<err, loopVars, genInputs, w_tid, w_pos, tmp, out, reads,
                   cfgVars, balVars, tpVars>>

\* plain layout: dnnl_brgemm_init zeroes the tile's region (lines 801-804)
PlainZero ==
    /\ g_pc = "k_zero"
    /\ ~is_blocking
    /\ out' = [key \in DOMAIN out |->
                  IF /\ m_idx < PadM /\ n_idx < PadN
                     /\ Inside(OutputBlock(key[1], key[2]), ThreadRegion)
                  THEN [zeroed |-> TRUE, terms |-> <<>>]
                  ELSE out[key]]
    /\ r_lks' = 0
    /\ g_pc' = "k_add"
    /\ UNCHANGED <<err, loopVars, genInputs, w_tid, w_pos, tmp, r_lm_ln,
                   reads, anchors, cfgVars, balVars, tpVars>>

\* plain layout: the loops step after an iteration of
\* 'for lks in [0, K_split_num)' (lines 805-816)
PlainAdvance ==
    IF r_lks + 1 < K_split_num
    THEN /\ r_lks' = r_lks + 1
         /\ UNCHANGED <<r_lm_ln, g_pc>>
    ELSE /\ r_lks' = 0
         /\ r_lm_ln' = r_lm_ln + 1
         /\ g_pc' = IF r_lm_ln + 1
                          < M_single_thr_num_block * N_single_thr_num_block
                    THEN "k_add" ELSE "k_anchor"

\* plain layout: slot lks exists and is added to C
PlainAdd ==
    /\ g_pc = "k_add"
    /\ ~is_blocking
    /\ r_lks < K_real_split
    /\ out' = [out EXCEPT ![ReduceBlock] =
                  [@ EXCEPT !.terms =
                      @ \o tmp[<<r_lks, ReduceBlock[1], ReduceBlock[2]>>].terms]]
    /\ reads' = reads \cup {Read(r_lks)}
    /\ PlainAdvance
    /\ UNCHANGED <<err, loopVars, genInputs, w_tid, w_pos, tmp, anchors,
                   cfgVars, balVars, tpVars>>

\* plain layout: lks runs to K_split_num, but out_tmp_buf has only
\* K_real_split slots; the read past its end is undefined: it faults, or
\* it yields zeros, or some other value that is added to C
PlainAddOutOfBounds ==
    /\ g_pc = "k_add"
    /\ ~is_blocking
    /\ r_lks >= K_real_split
    /\ r_lks < K_split_num
    /\ reads' = reads \cup {Read(r_lks)}
    /\ \E outcome \in {"fault", "zeros", "value"} :
          IF outcome = "fault"
          THEN /\ g_pc' = "k_fault"
               /\ UNCHANGED <<out, r_lm_ln, r_lks>>
          ELSE /\ out' = [out EXCEPT ![ReduceBlock] =
                             [@ EXCEPT !.terms =
                                 IF outcome = "zeros" THEN @
                                 ELSE Append(@, -1)]]
               /\ PlainAdvance
    /\ UNCHANGED <<err, loopVars, genInputs, w_tid, w_pos, tmp, anchors,
                   cfgVars, balVars, tpVars>>

\* the anchor after the plain reduction (lines 817-886), chosen as the
\* thread-level anchor of the K_split_num == 1 plan is
inner_anchor_slice == ThreadAnchorSlice

PlainAnchor ==
    /\ g_pc = "k_anchor"
    /\ ~is_blocking
    /\ anchors' = IF fusion /\ m_idx < PadM /\ n_idx < PadN
                  THEN Append(anchors, Anchor("thread", inner_anchor_slice))
                  ELSE anchors
    /\ g_pc' = "k_tile_end"
    /\ UNCHANGED <<err, loopVars, genInputs, w_tid, w_pos, tmp, out, r_lm_ln,
                   r_lks, reads, cfgVars, balVars, tpVars>>

\* the n_s loop steps; at its end the outer anchor is created (lines
\* 889-921) and the m_s loop steps
KSplitNextTile ==
    /\ g_pc = "k_tile_end"
    /\ regions' = Append(regions, ThreadRegion)
    /\ w_pos' = FreshWorkers
    /\ w_tid' = FreshTids
    /\ IF n_s + 1 < N_real_split
       THEN /\ n_s' = n_s + 1
            /\ g_pc' = "k_partial"
            /\ UNCHANGED <<m_s, anchors>>
       ELSE /\ anchors' = IF fusion /\ N_split_num = 1
                          THEN Append(anchors,
                                      Anchor("outer", OuterAnchorSlice))
                          ELSE anchors
            /\ n_s' = 0
            /\ m_s' = m_s + 1
            /\ g_pc' = IF m_s + 1 < M_real_split
                       THEN "k_partial" ELSE "k_done"
    /\ UNCHANGED <<err, tid, m_b, n_b, k_b, m_o, n_o, log, outer, genInputs,
                   tmp, out, r_lm_ln, r_lks, reads, cfgVars, balVars, tpVars>>

----------------------------------------------------------------------------
(* src/common/dnnl_threadpool.cpp: the thread-local max_concurrency and    *)
(* the interop calls that set and get it.  Each call is one step of the    *)
(* calling thread; the calls of different threads interleave.  The         *)
(* thread_local is initialized on the thread's first use with              *)
(* get_max_threads_to_use(), which no call changes, so the model holds     *)
(* that value from the start.                                              *)

TpThreads == {"t1", "t2"}

\* values callers pass to set_max_concurrency (an int, not validated)
TpValues == {-1, 0, 1, 2}

\* values of cpu::platform::get_max_threads_to_use()
TpPlatformThreads == {1, 4}

ThreadpoolInit ==
    /\ tp_ndebug \in BOOLEAN
    /\ \E d \in TpPlatformThreads : tp_tls = [t \in TpThreads |-> d]
    /\ tp_ret = [t \in TpThreads |-> [op |-> "none", status |-> "none"]]
    /\ tp_out = [t \in TpThreads |-> [written |-> FALSE, value |-> 0]]
    /\ tp_last = [t \in TpThreads |-> [set |-> FALSE, value |-> 0]]
       \* balance211 is not being driven
    /\ b_n = 0 /\ b_team = 0 /\ b_idx = 0
    /\ b_starts = <<>> /\ b_lens = <<>> /\ b_T1 = 0
       \* no op is constructed
    /\ dtype = "f32" /\ plain_M = 0 /\ plain_N = 0 /\ plain_K = 0
    /\ num_threads = 0 /\ L2_size = 0
    /\ iim_block = 0 /\ iin_block = 0 /\ iik_block = 0
    /\ pc = "idle" /\ i = 0 /\ cost = 0 /\ split_n = 0
    /\ cfg = [M_split_num |-> 0, N_split_num |-> 0, M_sub_block |-> 0,
              N_sub_block |-> 0, K_sub_block |-> 0, im_loop_order |-> 0]
       \* generate is not running
    /\ B_dtype = "f32" /\ B_blocks2 = -1
    /\ is_blocking = FALSE /\ fusion = FALSE
    /\ g_pc = "idle" /\ err = ""
    /\ m_s = 0 /\ n_s = 0 /\ tid = 0
    /\ m_b = 0 /\ n_b = 0 /\ k_b = 0 /\ m_o = 0 /\ n_o = 0
    /\ log = <<>> /\ regions = <<>> /\ outer = <<>>
       \* no K-split plan is running
    /\ w_tid = <<>> /\ w_pos = <<>> /\ tmp = <<>> /\ out = <<>>
    /\ r_lm_ln = 0 /\ r_lks = 0 /\ reads = {} /\ anchors = <<>>

\* get_threadlocal_max_concurrency runs 'assert(max_concurrency > 0)' on
\* every call (line 36); a build without NDEBUG aborts the process when
\* it fails
AssertFails(t) == ~tp_ndebug /\ tp_tls[t] <= 0

Aborted == \E t \in TpThreads : tp_ret[t].status = "aborted"

otherVars == <<balVars, cfgVars, genVars, ksVars>>

\* dnnl_threadpool_interop_set_max_concurrency(v) on thread t (lines 48-52)
set_max_concurrency ==
    /\ ~Aborted
    /\ \E t \in TpThreads, v \in TpValues :
          IF AssertFails(t)
          THEN /\ tp_ret' = [tp_ret EXCEPT
                                ![t] = [op |-> "set", status |-> "aborted"]]
               /\ UNCHANGED <<tp_tls, tp_last>>
          ELSE /\ tp_tls' = [tp_tls EXCEPT ![t] = v]
               /\ tp_ret' = [tp_ret EXCEPT
                                ![t] = [op |-> "set", status |-> "success"]]
               /\ tp_last' = [tp_last EXCEPT
                                 ![t] = [set |-> TRUE, value |-> v]]
    /\ UNCHANGED <<tp_out, tp_ndebug, otherVars>>

\* dnnl_threadpool_interop_get_max_concurrency(p) on thread t with p not
\* null (lines 54-61)
get_max_concurrency ==
    /\ ~Aborted
    /\ \E t \in TpThreads :
          IF AssertFails(t)
          THEN /\ tp_ret' = [tp_ret EXCEPT
                                ![t] = [op |-> "get", status |-> "aborted"]]
               /\ UNCHANGED tp_out
          ELSE /\ tp_out' = [tp_out EXCEPT
                                ![t] = [written |-> TRUE,
                                        value |-> tp_tls[t]]]
               /\ tp_ret' = [tp_ret EXCEPT
                                ![t] = [op |-> "get", status |-> "success"]]
    /\ UNCHANGED <<tp_tls, tp_last, tp_ndebug, otherVars>>

\* dnnl_threadpool_interop_get_max_concurrency(nullptr) on thread t: the
\* null check of line 57 returns before the thread_local is touched
get_max_concurrency_null ==
    /\ ~Aborted
    /\ \E t \in TpThreads :
          tp_ret' = [tp_ret EXCEPT
                        ![t] = [op |-> "get_null",
                                status |-> "invalid_arguments"]]
    /\ UNCHANGED <<tp_tls, tp_out, tp_last, tp_ndebug, otherVars>>

----------------------------------------------------------------------------
(* The specifications *)

BalanceStep == BalanceCall /\ UNCHANGED <<cfgVars, genVars, ksVars, tpVars>>

NextBalance == BalanceStep

SpecBalance == BalanceInit /\ [][NextBalance]_vars

NextConfig ==
    \/ SearchIter
    \/ SearchExit
    \/ OverrideInt8
    \/ OverrideSmall
    \/ OverrideBigK_MltN
    \/ OverrideBigK_MgeN
    \/ OverrideNone
    \/ TileSize

SpecConfig == ConfigInit /\ [][NextConfig]_vars

NextGenerate ==
    \/ DivideByZero
    \/ Reject
    \/ Accept
    \/ AcceptKSplit
    \/ ThreadStart
    \/ GemmCall
    \/ SubBlockEnd
    \/ ThreadEnd
    \/ NextThread

SpecGenerate == GenerateInit /\ [][NextGenerate]_vars

NextKSplit ==
    \/ DivideByZero
    \/ Reject
    \/ Accept
    \/ AcceptKSplit
    \/ KSplitStart
    \/ WorkerStart
    \/ PartialGemm
    \/ Join
    \/ BlockedZero
    \/ BlockedAdd
    \/ BlockedAnchor
    \/ PlainZero
    \/ PlainAdd
    \/ PlainAddOutOfBounds
    \/ PlainAnchor
    \/ KSplitNextTile

SpecKSplit == KSplitInit /\ [][NextKSplit]_vars

NextThreadpool ==
    \/ set_max_concurrency
    \/ get_max_concurrency
    \/ get_max_concurrency_null

SpecThreadpool == ThreadpoolInit /\ [][NextThreadpool]_vars

Next ==
    NextBalance \/ NextConfig \/ NextGenerate \/ NextKSplit
        \/ NextThreadpool

Init ==
    BalanceInit \/ ConfigInit \/ GenerateInit \/ KSplitInit
        \/ ThreadpoolInit

Spec == Init /\ [][Next]_vars

----------------------------------------------------------------------------
(* balance211: claims *)

\* C1: for n > 0 and team > 0 the lengths over idx in [0, team) sum to n and
\* take at most two distinct values, which differ by at most 1.
C1_LengthsSumAndSpread ==
    BalanceDone =>
        /\ Len(b_lens) = b_team
        /\ SeqSum(b_lens) = b_n
        /\ Cardinality(SeqRange(b_lens)) <= 2
        /\ \A x, y \in SeqRange(b_lens) : x - y <= 1

\* an uneven division has been computed: both lengths occur
C1_Witness ==
    /\ BalanceDone
    /\ b_team >= 3
    /\ Cardinality(SeqRange(b_lens)) = 2

\* C2: the (start, length) pairs are a contiguous partition of [0, n):
\* start(0) = 0, start(idx+1) = start(idx) + length(idx), and the last worker
\* ends at n, also when n < team.
C2_ContiguousPartition ==
    BalanceDone =>
        /\ b_starts[1] = 0
        /\ \A k \in 1..(b_team - 1) : b_starts[k + 1] = b_starts[k] + b_lens[k]
        /\ b_starts[b_team] + b_lens[b_team] = b_n
        /\ \A k \in 1..b_team : b_lens[k] >= 0

\* fewer granules than workers: the trailing workers got nothing
C2_Witness ==
    /\ BalanceDone
    /\ b_n < b_team
    /\ b_lens[b_team] = 0
    /\ b_lens[1] = 1

\* the formula of the specification: worker idx < T1 gets n1 at idx*n1, worker
\* idx >= T1 gets n2 at T1*n1 + (idx-T1)*n2
ReferenceBalance(n, team, idx) ==
    LET n1 == IF n % team = 0 THEN n \div team ELSE n \div team + 1
        n2 == n1 - 1
        T1 == n - n2 * team
    IN  IF idx < T1 THEN <<idx * n1, n1>>
        ELSE <<T1 * n1 + (idx - T1) * n2, n2>>

\* C3: every call returns the (start, length) of the reference formula, and
\* n = 2, team = 3 yields (0,1), (1,1), (2,0).
C3_MatchesReference ==
    /\ \A k \in 1..Len(b_lens) :
          <<b_starts[k], b_lens[k]>> = ReferenceBalance(b_n, b_team, k - 1)
    /\ (BalanceDone /\ b_n = 2 /\ b_team = 3) =>
          (b_starts = <<0, 1, 2>> /\ b_lens = <<1, 1, 0>>)

\* the call with idx = T1, where the code's 'idx <= T1' and the reference's
\* 'idx < T1' take different branches, has been made for n = 2, team = 3
C3_Witness ==
    /\ BalanceDone
    /\ b_n = 2 /\ b_team = 3
    /\ b_T1 = 2
    /\ b_starts[3] = 2

----------------------------------------------------------------------------
(* get_default_config: claims *)

Returned == pc = "done"
AfterSearch == pc \in {"override", "tile", "done"}
AfterOverride == pc \in {"tile", "done"}

\* C4: the Config has M_split_num >= 1, N_split_num >= 1 and
\* M_split_num * N_split_num <= num_threads, after the search and after
\* every override branch.
C4_SplitsWithinThreads ==
    AfterSearch =>
        /\ cfg.M_split_num >= 1
        /\ cfg.N_split_num >= 1
        /\ cfg.M_split_num * cfg.N_split_num <= num_threads

\* a Config is returned from the large-K M < N collapse with threads left over
\* for K
C4_Witness ==
    /\ Returned
    /\ PadK >= 8192 /\ PadM < PadN
    /\ cfg.M_split_num = 1
    /\ cfg.N_split_num > 1
    /\ cfg.M_split_num * cfg.N_split_num < num_threads

\* C5: get_default_config terminates normally for every num_threads >= 1 and
\* every shape with at least one block per axis: no out-of-range access to a
\* divisor list and no division by zero.
C5_TerminatesNormally ==
    /\ pc \notin {"out_of_range", "div_by_zero"}
    /\ pc = "search" =>
          \A j \in 1..num_threads :
              num_core(j, PadM, PadN, iim_block, iin_block, num_threads) > 0

\* C6: the N-split chosen by the search divides num_threads, so that before
\* any override M_split_num * N_split_num = num_threads.
C6_SearchPicksDivisor ==
    pc = "override" =>
        /\ num_threads % split_n = 0
        /\ cfg.M_split_num * cfg.N_split_num = num_threads

\* C6 as amended: the search picks some split_n in 1 .. num_threads, divisor
\* or not; M_split_num is the integer quotient, so the product is at most
\* num_threads, and equals it exactly when split_n divides num_threads.
C6_SearchPicksCandidate ==
    pc = "override" =>
        /\ split_n \in 1..num_threads
        /\ cfg.N_split_num = split_n
        /\ cfg.M_split_num * split_n <= num_threads
        /\ num_threads - cfg.M_split_num * split_n < split_n
        /\ (cfg.M_split_num * cfg.N_split_num = num_threads)
              <=> (num_threads % split_n = 0)

\* the search has ended on a candidate that does not divide num_threads
C6_Witness ==
    /\ pc = "override"
    /\ num_threads % split_n # 0
    /\ cfg.M_split_num * cfg.N_split_num < num_threads

C8_SmallShapesSplitOnM ==
    (/\ AfterOverride
     /\ \/ dtype \in {"u8", "s8"} /\ PadN <= 512 /\ PadK <= 512
        \/ PadN <= 192 /\ PadK <= 192)
    => (cfg.N_split_num = 1 /\ cfg.M_split_num = num_threads)

\* an s8 matmul whose search chose an N-split > 1 was returned
C8_Witness ==
    /\ Returned
    /\ dtype = "s8" /\ PadN > 192 /\ PadN <= 512 /\ PadK <= 512
    /\ split_n > 1
    /\ cfg.N_split_num = 1

\* C9: for K >= 8192 and M < N: the searched M_split_num is divided by its
\* second divisor when it has at least 3 divisors and N/M < 3 (N_split_num
\* unchanged); otherwise M_split_num = 1 and N_split_num = num_threads / d,
\* d the second divisor of num_threads.
C9_BigK_MltN ==
    (pc \in {"tile", "done", "out_of_range"} /\ PadK >= 8192 /\ PadM < PadN) =>
        LET m == num_threads \div split_n
            sp == get_splits(m)
            st == get_splits(num_threads)
        IN  IF Len(sp) >= 3 /\ PadN \div PadM < 3
            THEN /\ cfg.M_split_num = m \div sp[2]
                 /\ cfg.N_split_num = split_n
            ELSE /\ cfg.M_split_num = 1
                 /\ Len(st) >= 2
                 /\ cfg.N_split_num = num_threads \div st[2]

----------------------------------------------------------------------------
(* get_default_config: claims about the sub-block sizing *)

\* bytes of one element of A; B has the width of A (f32 x f32, bf16 x bf16,
\* u8/s8 x s8), as the sizing's own derivation assumes
ElemBytesA ==
    CASE dtype = "f32" -> 4
      [] dtype = "bf16" -> 2
      [] OTHER -> 1

CeilDiv(x, y) == IF x % y = 0 THEN x \div y ELSE x \div y + 1

\* C11: one sub-tile's working set fits the L2 cache: with Mt, Nt, Kt the
\* per-sub-block extents (rounded up to whole blocks),
\* sizeof(A)*Mt*Kt + sizeof(B)*Nt*Kt + sizeof(C)*Mt*Nt <= L2_size.
C11_WorkingSetFitsL2 ==
    Returned =>
        LET Mt == CeilDiv(CeilDiv(single_M, cfg.M_sub_block), iim_block)
                      * iim_block
            Nt == CeilDiv(CeilDiv(single_N, cfg.N_sub_block), iin_block)
                      * iin_block
            Kt == CeilDiv(CeilDiv(PadK, cfg.K_sub_block), iik_block)
                      * iik_block
        IN  ElemBytesA * Mt * Kt + ElemBytesA * Nt * Kt + 4 * Mt * Nt
                <= L2_size

\* C12: every returned Config has M_sub_block, N_sub_block, K_sub_block >= 1.
C12_SubBlocksAtLeastOne ==
    Returned =>
        /\ cfg.M_sub_block >= 1
        /\ cfg.N_sub_block >= 1
        /\ cfg.K_sub_block >= 1

\* a Config was returned whose per-thread M extent is below the cache-sized
\* tile edge, so that only the floor to 1 keeps M_sub_block positive
C12_Witness ==
    /\ Returned
    /\ PadK < single_K_threshold
    /\ L2_size \div (2 * ElemBytesA * PadK) > single_M
    /\ cfg.M_sub_block = 1
    /\ cfg.K_sub_block = 1

\* C13: K_sub_block = 1 when the total padded K is below threshold_elems and
\* ceil(K / threshold_elems) otherwise, threshold_elems = 2048/sizeof(A) if
\* single_M*single_N*sizeof(A) < L2_size and 4096/sizeof(A) if not; K is the
\* total K whatever the K-split.
C13_KSubBlock ==
    Returned =>
        LET threshold_elems ==
                IF single_M * single_N * ElemBytesA < L2_size
                THEN 2048 \div ElemBytesA ELSE 4096 \div ElemBytesA
        IN  IF PadK < threshold_elems
            THEN cfg.K_sub_block = 1
            ELSE cfg.K_sub_block = CeilDiv(PadK, threshold_elems)

\* a Config that leaves at least two threads to the K-split and still cuts the
\* total K into several sub-blocks
C13_Witness ==
    /\ Returned
    /\ num_threads \div (cfg.M_split_num * cfg.N_split_num) >= 2
    /\ cfg.K_sub_block > 1
    /\ PadK \div (num_threads \div (cfg.M_split_num * cfg.N_split_num))
          < 4096 \div ElemBytesA

----------------------------------------------------------------------------
(* generate with K_split_num == 1: claims about anchors, GEMM calls and    *)
(* thread regions                                                          *)

\* rectangles of output elements: [m, m + ml) x [n, n + nl)
Area(a) == a.ml * a.nl

RECURSIVE AreaSum(_)
AreaSum(evs) ==
    IF evs = <<>> THEN 0 ELSE Area(Head(evs)) + AreaSum(Tail(evs))

\* the entries of the log of one kind, in order
OfKind(kinds) == SelectSeq(log, LAMBDA e : e.kind \in kinds)

\* the running thread has left single_thread_matmul_call
ThreadFinished == g_pc \in {"thread_anchor", "thread_done"}

\* a set of pairwise disjoint rectangles inside r whose areas add up to r's
\* covers r exactly
Tiles(evs, r) ==
    /\ \A x \in 1..Len(evs) : Inside(evs[x], r) /\ Area(evs[x]) > 0
    /\ \A x, y \in 1..Len(evs) : x # y => ~Overlap(evs[x], evs[y])
    /\ AreaSum(evs) = Area(r)

\* C14: with K_split_num == 1 and a fusion sink, the sub-block anchors one
\* thread emits (one per (m_b, n_b)) are pairwise disjoint and their union is
\* exactly the thread's region, for plain and blocked outputs and for even
\* and uneven division.
C14_SubBlockAnchorsTile ==
    (ThreadFinished /\ fusion) =>
        /\ Len(OfKind({"anchor_sub"})) = cfg.M_sub_block * cfg.N_sub_block
        /\ Tiles(OfKind({"anchor_sub"}), ThreadRegion)

IsGemm(e) == e.kind \in {"init", "update"}
IsAnchor(e) == e.kind \in {"anchor_block", "anchor_sub", "anchor_thread"}

\* at position a of the log an anchor is emitted whose region is final: every
\* block it touches has received the GEMM call of every K-sub-block, and no
\* later GEMM call writes into it
AnchorFinal(a) ==
    /\ \A g \in (a + 1)..Len(log) : IsGemm(log[g]) => ~Overlap(log[g], log[a])
    /\ \A bm \in 0..((PadM \div iim_block) - 1),
          bn \in 0..((PadN \div iin_block) - 1) :
          Overlap(OutputBlock(bm, bn), log[a]) =>
              \A kb \in 0..(cfg.K_sub_block - 1) :
                  \E g \in 1..(a - 1) :
                      /\ IsGemm(log[g])
                      /\ log[g].k = kb
                      /\ log[g].m = bm * iim_block
                      /\ log[g].n = bn * iin_block

\* C15: an anchor for a region is emitted by a thread only after the thread
\* has issued, for every block of the region, the GEMM call of every
\* K-sub-block, and no GEMM call into the region follows the anchor (loop
\* order 0 and 1; per-block, sub-block and thread level).
C15_AnchorAfterAllGemms ==
    \A a \in 1..Len(log) : IsAnchor(log[a]) => AnchorFinal(a)

\* the GEMM calls of the log that target the block at (bm, bn), in order
GemmsOn(bm, bn) ==
    SelectSeq(log, LAMBDA e : /\ IsGemm(e)
                              /\ e.m = bm * iim_block
                              /\ e.n = bn * iin_block)

\* block coordinates of the running thread's region
ThreadBlocksM ==
    (m_idx \div iim_block)..(((m_idx + M_single_thr_size) \div iim_block) - 1)
ThreadBlocksN ==
    (n_idx \div iin_block)..(((n_idx + N_single_thr_size) \div iin_block) - 1)

\* C16: within one thread's run of single_thread_matmul_call every block of
\* the thread's region is the target of exactly K_sub_block GEMM calls, the
\* first in execution order being the init variant (k_b == 0) and every later
\* one the accumulate variant, for loop order 0 and 1.
C16_GemmCallsPerBlock ==
    /\ \A g \in 1..Len(log) :
          IsGemm(log[g]) =>
              LET first == \A h \in 1..(g - 1) :
                              IsGemm(log[h]) =>
                                  ~(log[h].m = log[g].m /\ log[h].n = log[g].n)
              IN  /\ (log[g].kind = "init") = first
                  /\ first = (log[g].k = 0)
    /\ ThreadFinished =>
          /\ \A g \in 1..Len(log) :
                IsGemm(log[g]) => Inside(log[g], ThreadRegion)
          /\ \A bm \in ThreadBlocksM, bn \in ThreadBlocksN :
                Len(GemmsOn(bm, bn)) = cfg.K_sub_block

\* a thread finished a region of several blocks under loop order 1 with two
\* K-sub-blocks: every block got an init call and then an accumulate call
C16_Witness ==
    /\ g_pc = "thread_done"
    /\ cfg.im_loop_order = 1
    /\ cfg.K_sub_block = 2
    /\ Cardinality(ThreadBlocksM) >= 2
    /\ Cardinality(ThreadBlocksN) >= 2
    /\ \A bm \in ThreadBlocksM, bn \in ThreadBlocksN :
          /\ GemmsOn(bm, bn)[1].kind = "init"
          /\ GemmsOn(bm, bn)[2].kind = "update"

\* the GEMM calls of K-sub-block kb in the sub-block the thread is in
SubBlockGemms(kb) ==
    SelectSeq(log, LAMBDA e : /\ IsGemm(e)
                              /\ e.mb = m_b /\ e.nb = n_b /\ e.k = kb)

\* the blocks of the sub-block the thread is in, by their element origin
SubBlockOrigins ==
    {<<m_idx + (m_b_idx + x) * iim_block, n_idx + (n_b_idx + y) * iin_block>> :
        x \in 0..(m_o_end - 1), y \in 0..(n_o_end - 1)}

\* C17: for every thread id and every sub-block of m_o_end x n_o_end blocks
\* the rotated visit order ((m_o + tid) mod m_o_end, (n_o + tid) mod n_o_end)
\* visits each block of the sub-block exactly once per K-sub-block: rotation
\* changes the order, not the set of blocks.
C17_RotationVisitsEachBlockOnce ==
    g_pc = "sub_block_end" =>
        \A kb \in 0..(cfg.K_sub_block - 1) :
            LET calls == SubBlockGemms(kb)
            IN  /\ Len(calls) = m_o_end * n_o_end
                /\ {<<calls[x].m, calls[x].n>> : x \in 1..Len(calls)}
                       = SubBlockOrigins

\* a sub-block of at least 2 x 2 blocks was finished by a thread whose id
\* shifts both axes: its first call was not on the sub-block's first block
C17_Witness ==
    /\ g_pc = "sub_block_end"
    /\ m_o_end >= 2 /\ n_o_end >= 2
    /\ tid % m_o_end # 0 /\ tid % n_o_end # 0
    /\ SubBlockGemms(0)[1].m # m_idx + m_b_idx * iim_block
    /\ SubBlockGemms(0)[1].n # n_idx + n_b_idx * iin_block

\* the padded output
PaddedOutput == PlainSlice(0, PadM, 0, PadN)

\* C18: the threads generate executes (m_s < M_real_split, n_s < N_real_split)
\* are assigned regions that are pairwise disjoint and whose union is exactly
\* the padded output [0, M) x [0, N), also when an axis has fewer blocks than
\* its split count; per-axis sizes differ by at most one block.
C18_ThreadRegionsPartition ==
    /\ \A x \in 1..Len(regions) :
          Inside(regions[x], PaddedOutput) /\ Area(regions[x]) > 0
    /\ \A x, y \in 1..Len(regions) :
          /\ x # y => ~Overlap(regions[x], regions[y])
          /\ regions[x].ml - regions[y].ml <= iim_block
          /\ regions[x].nl - regions[y].nl <= iin_block
    /\ g_pc = "emitted" =>
          /\ Len(regions) = M_real_split * N_real_split
          /\ Tiles(regions, PaddedOutput)

\* all threads ran, N had fewer blocks than N_split_num, and the two M shares
\* differ by one block
C18_Witness ==
    /\ g_pc = "emitted"
    /\ N_real_split < N_split_num
    /\ Len(regions) = 2
    /\ regions[1].ml = regions[2].ml + iim_block

----------------------------------------------------------------------------
(* generate: claims about the validation of the Config *)

\* the block count of the smallest non-empty per-thread share of an axis
SmallestShare(blocks, split) ==
    IF blocks \div split = 0 THEN CeilDiv(blocks, split) ELSE blocks \div split

\* a sub-block count of the Config exceeds the smallest share of its axis
Oversized ==
    \/ cfg.M_sub_block > SmallestShare(PadM \div iim_block, cfg.M_split_num)
    \/ cfg.N_sub_block > SmallestShare(PadN \div iin_block, cfg.N_split_num)
    \/ /\ K_split_num > 0
       /\ cfg.K_sub_block > SmallestShare(PadK \div iik_block, K_split_num)

NothingEmitted == log = <<>> /\ regions = <<>> /\ outer = <<>>

\* C19: generate rejects with a fatal validation failure every Config in
\* which M_sub_block, N_sub_block or K_sub_block exceeds the block count of
\* the smallest non-empty per-thread share of that axis, before any loop,
\* GEMM call or anchor is emitted.
C19_OversizedRejected ==
    (Oversized /\ g_pc # "validate") =>
        /\ g_pc = "rejected"
        /\ err \in {"bad M_sub_block given", "bad N_sub_block given",
                    "bad K_sub_block given"}
        /\ NothingEmitted

\* the packing factor B's dtype asks for
Packing ==
    CASE B_dtype = "bf16" -> 2
      [] B_dtype \in {"u8", "s8"} -> 4
      [] OTHER -> 1

\* B's format names a packing block other than the one its dtype asks for
WrongFormat == Packing > 1 /\ B_blocks2 # -1 /\ B_blocks2 # Packing

\* C20: generate derives dtype_block from B's dtype (bf16 -> 2, u8/s8 -> 4,
\* otherwise 1) and, when dtype_block > 1, fails fatally before any loop
\* emission unless B's format block entry is unset (-1) or equal to
\* dtype_block; when dtype_block == 1 no layout check can fail.
C20_PackingFormatChecked ==
    /\ (WrongFormat /\ g_pc # "validate") =>
          /\ g_pc \in {"rejected", "div_by_zero"}
          /\ NothingEmitted
    /\ (WrongFormat /\ g_pc = "rejected" /\ ~Oversized /\ K_split_num >= 1) =>
          err = "Wrong data format of B"
    /\ err = "Wrong data format of B" =>
          /\ WrongFormat
          /\ g_pc = "rejected"
          /\ NothingEmitted

\* generate threw on an s8 B whose format declares a packing block of 2
C20_Witness ==
    /\ g_pc = "rejected"
    /\ err = "Wrong data format of B"
    /\ B_dtype = "s8"
    /\ B_blocks2 = 2

----------------------------------------------------------------------------
(* Claims about K-split plans *)

\* the K blocks the slots 0 .. s - 1 of out_tmp_buf hold for block (bm, bn),
\* in slot order
RECURSIVE SlotTerms(_, _, _)
SlotTerms(bm, bn, s) ==
    IF s = 0 THEN <<>>
    ELSE SlotTerms(bm, bn, s - 1) \o tmp[<<s - 1, bm, bn>>].terms

\* what block key of C accumulated from inside out_tmp_buf
FromBuffer(key) == SelectSeq(out[key].terms, LAMBDA x : x # -1)

\* block key of C was zeroed and then received every slot of out_tmp_buf
Reduced(key) ==
    /\ out[key].zeroed
    /\ FromBuffer(key) = SlotTerms(key[1], key[2], K_real_split)

\* the blocks of C an anchor exposes
AnchorBlocks(a) ==
    {key \in DOMAIN out : Overlap(OutputBlock(key[1], key[2]), a)}

ReductionPhase == g_pc \in {"k_zero", "k_add", "k_anchor", "k_tile_end"}

\* C21: in a K-split plan no anchor is emitted by the partial-compute phase
\* (the workers log no anchor and the anchor list only grows in the
\* reduction phase); every anchor emitted covers only blocks of C that were
\* zeroed and then received every slot of the buffer; and a block of C that
\* has accumulated anything was zeroed before
C21_AnchorsOnlyAfterReduction ==
    /\ [](K_split_num > 1 /\ tmp # <<>> =>
            /\ log = <<>>
            /\ \A a \in 1..Len(anchors) :
                  \A key \in AnchorBlocks(anchors[a]) : Reduced(key)
            /\ \A key \in DOMAIN out :
                  out[key].terms # <<>> => out[key].zeroed)
    /\ [][anchors' # anchors => ReductionPhase]_vars

\* a K-split plan with several workers has ended and emitted anchors
C21_Witness ==
    /\ g_pc = "k_done"
    /\ K_real_split >= 2
    /\ Len(anchors) >= 2

\* the region of the tile (ms, ns)
TileRegion(ms, ns) ==
    LET mt == get_balance211_length(PadM \div iim_block, M_split_num, ms)
        nt == get_balance211_length(PadN \div iin_block, N_split_num, ns)
    IN  PlainSlice(mt.n_start * iim_block, mt.length * iim_block,
                   nt.n_start * iin_block, nt.length * iin_block)

\* C22: every block of every slot of out_tmp_buf has at most one writing
\* worker (m_s, n_s, k_s); that worker's k_s is the slot, and the block lies
\* inside the worker's tile region
C22_OneWriterPerElement ==
    K_split_num > 1 /\ tmp # <<>> =>
        \A key \in DOMAIN tmp :
            /\ Cardinality(tmp[key].writers) <= 1
            /\ \A w \in tmp[key].writers :
                  /\ w[3] = key[1]
                  /\ Inside(OutputBlock(key[2], key[3]),
                            TileRegion(w[1], w[2]))

\* workers of two tiles, several of them per tile, have all written
C22_Witness ==
    /\ g_pc = "k_done"
    /\ K_real_split >= 2
    /\ Len(regions) >= 2
    /\ \A key \in DOMAIN tmp : Cardinality(tmp[key].writers) = 1

\* every K-split worker of the running tile has entered and left
\* single_thread_matmul_call
AllWorkersReturned ==
    \A ks \in 0..(K_real_split - 1) : w_tid[ks] # -1 /\ w_pos[ks] = <<>>

\* the reduction has read out_tmp_buf for the running tile
TileWasRead == \E r \in reads : r.ms = m_s /\ r.ns = n_s

\* C23: a step of the reduction that reads out_tmp_buf is taken only when
\* every worker of the tile has made all its GEMM calls, and no worker writes
\* out_tmp_buf once the reduction of its tile has read it
C23_BarrierBeforeReduction ==
    [][/\ reads' # reads => AllWorkersReturned
       /\ g_pc = "k_partial" /\ tmp' # tmp => ~TileWasRead]_vars

\* the reduction of a tile with several workers is reading the buffer
C23_Witness ==
    /\ g_pc = "k_add"
    /\ K_real_split >= 2
    /\ TileWasRead
    /\ AllWorkersReturned

\* the number of times K block kb occurs in the sequence terms
Occurrences(terms, kb) ==
    Cardinality({p \in 1..Len(terms) : terms[p] = kb})

\* block key of C holds the product of every K block exactly once and nothing
\* else
SumsEveryKBlockOnce(key) ==
    /\ \A kb \in 0..((PadK \div iik_block) - 1) :
          Occurrences(out[key].terms, kb) = 1
    /\ Len(out[key].terms) = PadK \div iik_block

\* C24: when a K-split plan has run, every block of C holds the product of
\* every K block in [0, K / iik_block) exactly once and nothing else, which
\* is what the K_split_num == 1 plan accumulates into it
C24_KSplitSumsEveryKBlockOnce ==
    g_pc = "k_done" => \A key \in DOMAIN out : SumsEveryKBlockOnce(key)

\* C30: every slot of out_tmp_buf the reduction reads is one of the
\* K_real_split slots allocated, and a K-split worker wrote the block read
C30_ReductionReadsWrittenSlots ==
    \A r \in reads :
        /\ r.slot < K_real_split
        /\ <<r.slot, r.bm, r.bn>> \in DOMAIN tmp
        /\ tmp[<<r.slot, r.bm, r.bn>>].writers # {}

\* the two claims where the reduction stays inside the buffer: the blocked
\* layout, or at least as many K blocks as K-split workers
ReductionInBounds == is_blocking \/ K_real_split = K_split_num
KSplitInBoundsSound ==
    ReductionInBounds =>
        C24_KSplitSumsEveryKBlockOnce /\ C30_ReductionReadsWrittenSlots
KSplitInBoundsReached ==
    /\ g_pc = "k_done" /\ K_real_split >= 2 /\ K_sub_of(0, 0).length >= 1
    /\ PadK \div iik_block > K_real_split

----------------------------------------------------------------------------
(* Claims about the threadpool interop calls *)

\* the last call of thread t was a get with a pointer, after a set on t: it
\* returned success and wrote the value of t's last set
GetReturnsLastSet(t) ==
    tp_ret[t].op = "get" /\ tp_last[t].set =>
        /\ tp_ret[t].status = "success"
        /\ tp_out[t] = [written |-> TRUE, value |-> tp_last[t].value]

\* C25: on every thread a get with a non-null pointer that follows a set(v)
\* of the same thread returns success and writes v, whatever the other
\* threads set; a get with a null pointer returns invalid_arguments and
\* changes neither the stored value nor what an earlier get wrote
C25_ThreadLocalSetGet ==
    /\ [](\A t \in TpThreads :
            /\ GetReturnsLastSet(t)
            /\ tp_ret[t].op = "get_null" =>
                  tp_ret[t].status = "invalid_arguments")
    /\ [][\A t \in TpThreads :
            tp_ret'[t].op = "get_null" /\ tp_ret'[t] # tp_ret[t] =>
                tp_tls' = tp_tls /\ tp_out' = tp_out]_vars

\* the same for the calls that do not trip the assert of line 36
SetGetHoldsUnlessAsserted ==
    /\ [](\A t \in TpThreads :
            /\ tp_ret[t].status # "aborted" => GetReturnsLastSet(t)
            /\ tp_ret[t].op = "get_null" =>
                  tp_ret[t].status = "invalid_arguments")
    /\ [][\A t \in TpThreads :
            tp_ret'[t].op = "get_null" /\ tp_ret'[t] # tp_ret[t] =>
                tp_tls' = tp_tls /\ tp_out' = tp_out]_vars

----------------------------------------------------------------------------
(* Claims about the thread-level anchor *)

\* the last entry of the log is the thread-level anchor of the running
\* thread and exposes exactly the region balance211 gave the thread
ThreadAnchorExact ==
    /\ log # <<>>
    /\ log[Len(log)].kind = "anchor_thread"
    /\ log[Len(log)].m = m_idx /\ log[Len(log)].ml = M_single_thr_size
    /\ log[Len(log)].n = n_idx /\ log[Len(log)].nl = N_single_thr_size

\* balance211's T1, n1 and n2 for the M and the N axis
M_bal == get_balance211_length(PadM \div iim_block, M_split_num, 0)
N_bal == get_balance211_length(PadN \div iin_block, N_split_num, 0)
M_n1 == divide_and_ceil(PadM \div iim_block, M_split_num)
N_n1 == divide_and_ceil(PadN \div iin_block, N_split_num)

ThreadAnchored == g_pc = "thread_done" /\ fusion

\* C26 as stated: the thread-level anchor of every executed thread is the
\* thread's balance211 region, and M_blk_num / N_blk_num are balance211's
\* T1, M_block_size / N_block_size its n1 length and M_ib_block_size /
\* N_ib_block_size its n2 = n1 - 1 length, in elements
C26_AnchorIsRegion_IbIsN2 ==
    ThreadAnchored =>
        /\ ThreadAnchorExact
        /\ M_blk_num = M_bal.T1 /\ N_blk_num = N_bal.T1
        /\ M_block_size = M_n1 * iim_block
        /\ N_block_size = N_n1 * iin_block
        /\ M_ib_block_size = (M_n1 - 1) * iim_block
        /\ N_ib_block_size = (N_n1 - 1) * iin_block

\* C26 amended: the same, with M_ib_block_size / N_ib_block_size equal to
\* the n2 length only when some executed thread has the n2 share (T1 is
\* below the number of executed threads of the axis)
C26_AnchorIsRegion ==
    ThreadAnchored =>
        /\ ThreadAnchorExact
        /\ M_blk_num = M_bal.T1 /\ N_blk_num = N_bal.T1
        /\ M_block_size = M_n1 * iim_block
        /\ N_block_size = N_n1 * iin_block
        /\ M_bal.T1 < M_real_split =>
              M_ib_block_size = (M_n1 - 1) * iim_block
        /\ N_bal.T1 < N_real_split =>
              N_ib_block_size = (N_n1 - 1) * iin_block

\* a thread with the smaller M share has emitted its thread-level anchor
C26_Witness ==
    /\ ThreadAnchored
    /\ m_s >= M_blk_num
    /\ M_single_thr_size < M_block_size
    /\ ThreadAnchorExact

----------------------------------------------------------------------------
(* Claims about the split counts *)

\* C29: for a Config whose M_split_num * N_split_num exceeds num_threads,
\* generate ends in a failed COMPILE_ASSERT: it neither divides by
\* K_split_num = 0 nor emits any part of a plan
C29_TooManySplitsRejected ==
    cfg.M_split_num * cfg.N_split_num > num_threads /\ g_pc # "validate" =>
        g_pc = "rejected" /\ NothingEmitted

\* C27: with padded K >= 8192 and at least two threads the Config
\* get_default_config returns leaves a split on K: the K_split_num generate
\* derives from it is at least 2
C27_BigKSplitsOnK ==
    Returned /\ PadK >= 8192 /\ num_threads >= 2 => K_split_num >= 2

\* where the override for really big K does split K: M < N, or M >= N with
\* a searched N_split_num of more than two divisors
BigKSplitsOnKWhereShrunk ==
    /\ Returned /\ PadK >= 8192 /\ num_threads >= 2
    /\ PadM < PadN \/ Len(get_splits(split_n)) > 2
    => K_split_num >= 2

\* the three sub-block COMPILE_ASSERTs of generate (lines 548-556), on the
\* Config and shape get_default_config ran with
SubBlockAssertsPass ==
    /\ M_block_size \div iim_block >= cfg.M_sub_block
    /\ M_ib_block_size \div iim_block >= cfg.M_sub_block
    /\ N_block_size \div iin_block >= cfg.N_sub_block
    /\ N_ib_block_size \div iin_block >= cfg.N_sub_block
    /\ K_block_size \div iik_block >= cfg.K_sub_block
    /\ K_ib_block_size \div iik_block >= cfg.K_sub_block

\* C28: the Config get_default_config returns passes the three sub-block
\* checks of generate for the same shape and thread count
C28_DefaultConfigPassesValidation ==
    Returned => K_split_num >= 1 /\ SubBlockAssertsPass

====
